---------------------------- MODULE Spec2Model ----------------------------
(***************************************************************************)
(* A model of the two-way channel of src/lib/io/channel.c: two channel     *)
(* ends, the two atomic queues carrying data descriptors, the two control  *)
(* planes carrying control messages, and the requestor and the responder   *)
(* threads that call the channel's functions.                              *)
(*                                                                         *)
(* A channel function is split into steps only where it touches state the  *)
(* other thread can see (an atomic queue, the active flag, a control       *)
(* plane); the updates of the caller's own end that follow such an access  *)
(* belong to the same step.                                                *)
(*                                                                         *)
(* The module also models the leftmost skeleton tree of src/lib/util/lst.c *)
(* and of its revision unnamed/part_000: the circular array, the pivot     *)
(* stack and the back-index kept in every element.  Each function of the   *)
(* LST is one step; the channel and the LST do not touch each other.       *)
(***************************************************************************)
EXTENDS Integers, Sequences, FiniteSets, TLC

(***************************************************************************)
(* Bounds of the model.                                                    *)
(***************************************************************************)
\* slots of one atomic queue (ATOMIC_QUEUE_SIZE, 1024 in the source)
MaxQueue == 1
\* descriptors each side sends, not counting the sends that fail
MaxSend == 2
\* failed sends of a side that are made up for with one more send
MaxFailed == 1
\* messages a control plane holds before fr_control_message_send fails
MaxControl == 2
\* cap on the responder's num_signals for fr_channel_responder_sleeping
MaxSignals == 1
\* descriptors each side sends in the runs of the close handshake
MaxHandshake == 1
\* times the array of an LST can double before talloc_realloc must fail
MaxExpand == 1
\* elements (heap_thing) the callers of the LST own
MaxElems == 3
\* values of heap_thing.data: 1..MaxKey
MaxKey == 2
\* successful pops and extracts in one run of the LST
MaxRemovals == 4

(***************************************************************************)
(* fr_channel_direction_t, fr_channel_event_t and fr_channel_signal_t.     *)
(***************************************************************************)
TO_RESPONDER == 0
TO_REQUESTOR == 1

FR_CHANNEL_ERROR == "ERROR"
FR_CHANNEL_DATA_READY_RESPONDER == "DATA_READY_RESPONDER"
FR_CHANNEL_DATA_READY_REQUESTOR == "DATA_READY_REQUESTOR"
FR_CHANNEL_OPEN == "OPEN"
FR_CHANNEL_CLOSE == "CLOSE"
FR_CHANNEL_NOOP == "NOOP"

FR_CHANNEL_SIGNAL_ERROR == FR_CHANNEL_ERROR
FR_CHANNEL_SIGNAL_DATA_TO_RESPONDER == FR_CHANNEL_DATA_READY_RESPONDER
FR_CHANNEL_SIGNAL_DATA_TO_REQUESTOR == FR_CHANNEL_DATA_READY_REQUESTOR
FR_CHANNEL_SIGNAL_OPEN == FR_CHANNEL_OPEN
FR_CHANNEL_SIGNAL_CLOSE == FR_CHANNEL_CLOSE
FR_CHANNEL_SIGNAL_DATA_DONE_RESPONDER == "DATA_DONE_RESPONDER"
FR_CHANNEL_SIGNAL_RESPONDER_SLEEPING == "RESPONDER_SLEEPING"

\* the two threads that touch a channel
REQUESTOR == "requestor"
RESPONDER == "responder"
Threads == {REQUESTOR, RESPONDER}

VARIABLES
    same_thread,    \* fr_channel_t.same_thread
    active,         \* fr_channel_t.active
    end,            \* fr_channel_t.end[2]: the fields of fr_channel_end_t
    aq,             \* aq[e]: the contents of end[e].aq, oldest first
    control,        \* control[e]: the messages in flight on end[e].control
    pc,             \* pc[t]: where thread t is inside a channel function
    event,          \* what fr_channel_service_message returned last, and to whom
    next_id,        \* next_id[e]: descriptors handed to the send function of end e
    sent_ok,        \* sent_ok[e]: ids whose send on end e succeeded, in order
    failed,         \* failed[e]: ids whose send on end e returned an error
    tentative,      \* tentative[e]: the sequence number end e's last send wrote
                    \* into a descriptor it could not push, 0 once a push succeeds
    ctl_sent,       \* ctl_sent[e]: data and sleeping messages end e has handed
                    \* to fr_control_message_send, accepted or not (open and
                    \* close messages are not counted)
    recv_log,       \* recv_log[e]: descriptors handed to end[e].recv, in order
    null_replies,   \* calls of fr_channel_null_reply
    closing,        \* threads that have called their close function
    opened,         \* fr_channel_signal_open has been called
    assert_failed,  \* labels of the rad_assert()s that have failed
    rcode,          \* the last call of fr_channel_responder_sleeping: whether
                    \* it was made, and what it returned
    revision,       \* which lst.c runs: "lst.c" or its revision "part_000"
    lst,            \* the fr_lst_t, with the back-index of every element
    data,           \* data[e]: heap_thing.data of element e, never changed
    members,        \* elements inserted and not yet popped or extracted
    inserts,        \* calls of fr_lst_insert that returned 0
    removals,       \* pops and extracts that removed an element
    popped,         \* data of the elements popped since the last insert
    heap,           \* the reference fr_heap_t: its data, smallest first
    result,         \* the last LST call, its argument and what it returned
    expanded_at,    \* idx when lst_expand last doubled the array, -1 before
    qh,             \* the fr_quickheap_t, with the memory around its arrays
    qh_result       \* the last quickheap call and what it returned

qh_vars == <<qh, qh_result>>

lst_vars == <<revision, lst, data, members, inserts, removals, popped, heap,
              result, expanded_at, qh_vars>>

vars == <<same_thread, active, end, aq, control, pc, event, next_id,
          sent_ok, failed, tentative, ctl_sent, recv_log, null_replies, closing,
          opened, assert_failed, rcode>>

Other(e) == 1 - e

\* fr_channel_end_t after talloc_zero; the stamps are set to "now", time 0
fr_channel_end_t ==
    [sequence |-> 0, ack |-> 0, their_view_of_my_sequence |-> 0,
     sequence_at_last_signal |-> 0, num_outstanding |-> 0, num_packets |-> 0,
     num_signals |-> 0, num_resignals |-> 0, must_signal |-> FALSE,
     last_write |-> 0, last_read_other |-> 0]

(***************************************************************************)
(* The LST of src/lib/util/lst.c as it is allocated.                       *)
(***************************************************************************)
\* INITIAL_CAPACITY is 2048 in the source; any power of two behaves alike
INITIAL_CAPACITY == 2
MaxCapacity == INITIAL_CAPACITY * (2 ^ MaxExpand)

\* the elements are numbered; 0 stands for the NULL pointer
NULL == 0
Elems == 1 .. MaxElems

\* _fr_lst_alloc: the array holds nothing yet (its slots, and the slots a
\* later talloc_realloc adds, read as NULL), the pivot stack holds the
\* fictitious pivot 0.  item_index[e] is the int32_t at lst->offset inside
\* element e; -2 stands for a back-index no insert has written yet.  fault
\* is set when a call does what C leaves undefined.
fr_lst_alloc ==
    [capacity |-> INITIAL_CAPACITY, idx |-> 0, num_elements |-> 0,
     p |-> [i \in 0 .. MaxCapacity - 1 |-> NULL],
     s |-> [depth |-> 1, data |-> <<0>>],
     item_index |-> [e \in Elems |-> -2],
     fault |-> FALSE,
     below |-> FALSE]

(***************************************************************************)
(* The quickheap of src/lib/util/quickheap.c as it is allocated.           *)
(***************************************************************************)
\* INITIAL_CAPACITY of quickheap.c, the slots of the heap array: 2048 in the
\* source
QH_INITIAL_CAPACITY == 6
\* INITIAL_STACK_CAPACITY, the entries of the pivot stack: 32 in the source
INITIAL_STACK_CAPACITY == 5

\* a pointer that is neither NULL nor the address of an element
WILD == -1

\* talloc_array does not clear what it returns: every slot of the heap array
\* holds NULL or a wild pointer, and the entries of the stack hold some
\* number, until the quickheap writes them
HeapGarbage == {NULL, WILD}
StackGarbage == {0, 1}
\* a write to the slot one past the heap array stops the program, or the
\* memory there holds what is written
Past == {"stops", "holds"}

\* _fr_quickheap_alloc: the heap array has QH_INITIAL_CAPACITY slots (slot
\* QH_INITIAL_CAPACITY of the function below is the memory after them),
\* capacity is one more, the stack holds the fictitious pivot 0.  fault is
\* set when a call does what C leaves undefined and the program stops or the
\* values involved are beyond this model; oob records an access to the
\* memory after the heap array, beyond a read of a stack entry at or above
\* the depth of the stack.
fr_quickheap_alloc(slot, entry, past) ==
    [capacity |-> QH_INITIAL_CAPACITY + 1, idx |-> 0,
     heap |-> [i \in 0 .. QH_INITIAL_CAPACITY |-> slot],
     s |-> [depth |-> 1,
            data |-> [i \in 0 .. INITIAL_STACK_CAPACITY - 1 |->
                         IF i = 0 THEN 0 ELSE entry]],
     past |-> past, fault |-> FALSE, oob |-> FALSE, beyond |-> FALSE]

\* a quickheap nobody uses
QhUnused ==
    /\ qh = fr_quickheap_alloc(NULL, 0, "stops")
    /\ qh_result = [op |-> "none", arg |-> NULL, rc |-> NULL]

\* an LST nobody uses, for the runs of the channel
LstUnused ==
    /\ QhUnused
    /\ revision = "lst.c"
    /\ lst = fr_lst_alloc
    /\ data = [e \in Elems |-> 1]
    /\ members = {}
    /\ inserts = 0
    /\ removals = 0
    /\ popped = <<>>
    /\ heap = <<>>
    /\ result = [op |-> "none", arg |-> NULL, rc |-> 0, ref |-> 0]
    /\ expanded_at = -1

\* fr_channel_create
ChannelInit ==
    /\ same_thread \in BOOLEAN
    /\ active = TRUE
    /\ end = [e \in {TO_RESPONDER, TO_REQUESTOR} |-> fr_channel_end_t]
    /\ aq = [e \in {TO_RESPONDER, TO_REQUESTOR} |-> <<>>]
    /\ control = [e \in {TO_RESPONDER, TO_REQUESTOR} |-> <<>>]
    /\ pc = [t \in Threads |-> "idle"]
    /\ event = [to |-> "none", ce |-> "none"]
    /\ next_id = [e \in {TO_RESPONDER, TO_REQUESTOR} |-> 0]
    /\ sent_ok = [e \in {TO_RESPONDER, TO_REQUESTOR} |-> <<>>]
    /\ failed = [e \in {TO_RESPONDER, TO_REQUESTOR} |-> {}]
    /\ tentative = [e \in {TO_RESPONDER, TO_REQUESTOR} |-> 0]
    /\ ctl_sent = [e \in {TO_RESPONDER, TO_REQUESTOR} |-> 0]
    /\ recv_log = [e \in {TO_RESPONDER, TO_REQUESTOR} |-> <<>>]
    /\ null_replies = 0
    /\ closing = {}
    /\ opened = FALSE
    /\ assert_failed = {}
    /\ rcode = [called |-> FALSE, rc |-> 0]

\* a channel as it is created, and an LST nobody uses
Init ==
    /\ ChannelInit
    /\ LstUnused

(***************************************************************************)
(* The external collaborators: the atomic queue and the control plane.     *)
(***************************************************************************)
\* fr_atomic_queue_push succeeds unless the queue is full
CanPush(q) == Len(q) < MaxQueue

\* the outcomes of fr_control_message_send on end e's control plane: it can
\* fail at any time, and it fails when the plane's ring buffer is full
SendOutcomes(e) == IF Len(control[e]) < MaxControl THEN {TRUE, FALSE} ELSE {FALSE}

\* fr_control_message_send(end[e].control, ...): the planes after the call
ControlSend(e, cc, ok) ==
    IF ok THEN [control EXCEPT ![e] = Append(@, cc)] ELSE control

\* the messages end e has sent once one more send has returned
CountSend(e) == [ctl_sent EXCEPT ![e] = @ + 1]

\* thread t reads the control plane its own end of the channel refers to
Plane(t) == IF t = REQUESTOR THEN TO_REQUESTOR ELSE TO_RESPONDER

(***************************************************************************)
(* The data descriptor the caller hands to a send function: the n-th       *)
(* descriptor of a direction carries the time stamp n.                     *)
(***************************************************************************)
Descriptor(id, sequence, ack) ==
    [id |-> id, when |-> id, sequence |-> sequence, ack |-> ack]

\* the sender of end e has another descriptor to send
MayTrySend(e) ==
    LET made_up == IF Cardinality(failed[e]) < MaxFailed
                   THEN Cardinality(failed[e]) ELSE MaxFailed
    IN next_id[e] < MaxSend + made_up

\* requests the responder's callback has seen and the responder has neither
\* replied to nor dropped with fr_channel_null_reply
Unanswered ==
    Len(recv_log[TO_REQUESTOR]) - Len(sent_ok[TO_REQUESTOR]) - null_replies

(***************************************************************************)
(* What the channel functions do to the caller's own end.                  *)
(***************************************************************************)
\* Faulty variants of the updates below, each with one assignment left out
\* or changed; the properties of the channel are checked to notice them.
SendRequestEnd_NoSequence(requestor, cd) ==
    [requestor EXCEPT !.last_write = cd.when,
                      !.num_outstanding = @ + 1,
                      !.num_packets = @ + 1]

SendReplyEnd_KeepsSequence(responder, cd) ==
    [responder EXCEPT !.num_outstanding = @ - 1,
                      !.num_packets = @ + 1,
                      !.last_write = cd.when]

RecvReplyEnd_NoDecrement(requestor, cd) ==
    [requestor EXCEPT !.ack = cd.sequence,
                      !.their_view_of_my_sequence = cd.ack,
                      !.last_read_other = cd.when]

RecvRequestEnd_ViewFromSequence(responder, cd) ==
    [responder EXCEPT !.num_outstanding = @ + 1,
                      !.ack = cd.sequence,
                      !.their_view_of_my_sequence = cd.sequence,
                      !.last_read_other = cd.when]

NullReplyEnd_CountsReply(responder) ==
    [responder EXCEPT !.sequence = @ + 1, !.num_outstanding = @ - 1]

\* a faulty fr_channel_data_ready that does not count the signal
DataReadyEnd_NoCount(e) ==
    [e EXCEPT !.must_signal = FALSE]

\* a faulty fr_channel_data_ready that leaves must_signal as it finds it
DataReadyEnd_KeepsMustSignal(e) ==
    [e EXCEPT !.num_signals = @ + 1]

\* fr_channel_data_ready: the end that signals
DataReadyEnd(e) ==
    [e EXCEPT !.num_signals = @ + 1, !.must_signal = FALSE]

\* fr_channel_send_request after a successful push
SendRequestEnd(requestor, cd) ==
    [requestor EXCEPT !.sequence = cd.sequence,
                      !.last_write = cd.when,
                      !.num_outstanding = @ + 1,
                      !.num_packets = @ + 1]

\* fr_channel_send_reply after a successful push
SendReplyEnd(responder, cd) ==
    [responder EXCEPT !.num_outstanding = @ - 1,
                      !.num_packets = @ + 1,
                      !.sequence = cd.sequence,
                      !.last_write = cd.when]

\* fr_channel_recv_reply after a successful pop
RecvReplyEnd(requestor, cd) ==
    [requestor EXCEPT !.num_outstanding = @ - 1,
                      !.ack = cd.sequence,
                      !.their_view_of_my_sequence = cd.ack,
                      !.last_read_other = cd.when]

\* fr_channel_recv_request after a successful pop
RecvRequestEnd(responder, cd) ==
    [responder EXCEPT !.num_outstanding = @ + 1,
                      !.ack = cd.sequence,
                      !.their_view_of_my_sequence = cd.ack,
                      !.last_read_other = cd.when]

\* fr_channel_null_reply
NullReplyEnd(responder) ==
    [responder EXCEPT !.sequence = @ + 1]

\* the rad_assert()s of fr_channel_recv_reply that fail for descriptor cd
RecvReplyAsserts(requestor, cd) ==
    {a \in {"recv_reply:num_outstanding", "recv_reply:sequence>ack",
            "recv_reply:sequence<=sequence", "recv_reply:last_read_other"} :
        \/ a = "recv_reply:num_outstanding" /\ ~(requestor.num_outstanding > 0)
        \/ a = "recv_reply:sequence>ack" /\ ~(cd.sequence > requestor.ack)
        \/ a = "recv_reply:sequence<=sequence" /\ ~(cd.sequence <= requestor.sequence)
        \/ a = "recv_reply:last_read_other" /\ ~(requestor.last_read_other <= cd.when)}

\* the rad_assert()s of fr_channel_recv_request that fail for descriptor cd
RecvRequestAsserts(responder, cd) ==
    {a \in {"recv_request:sequence>ack", "recv_request:sequence>=sequence",
            "recv_request:last_read_other"} :
        \/ a = "recv_request:sequence>ack" /\ ~(cd.sequence > responder.ack)
        \/ a = "recv_request:sequence>=sequence" /\ ~(cd.sequence >= responder.sequence)
        \/ a = "recv_request:last_read_other" /\ ~(responder.last_read_other <= cd.when)}

\* the rad_assert()s of fr_channel_send_reply after its push
SendReplyAsserts(responder, cd) ==
    {a \in {"send_reply:num_outstanding", "send_reply:last_write"} :
        \/ a = "send_reply:num_outstanding" /\ ~(responder.num_outstanding > 0)
        \/ a = "send_reply:last_write" /\ ~(responder.last_write <= cd.when)}

\* the rad_assert() of fr_channel_send_request after its push
SendRequestAsserts(requestor, cd) ==
    {a \in {"send_request:last_write"} : ~(requestor.last_write <= cd.when)}

\* the rad_assert() of fr_channel_send_reply before it signals
SignalAsserts(responder) ==
    {a \in {"send_reply:their_view_of_my_sequence"} :
        ~(responder.their_view_of_my_sequence <= responder.sequence)}

(***************************************************************************)
(* fr_channel_recv_reply and fr_channel_recv_request when the pop          *)
(* succeeds: the body both of a direct call and of the drain loops.        *)
(***************************************************************************)
\* a faulty fr_channel_recv_reply that pops a reply and never calls end->recv
recv_reply_without_callback ==
    LET cd == Head(aq[TO_REQUESTOR]) IN
    /\ aq' = [aq EXCEPT ![TO_REQUESTOR] = Tail(@)]
    /\ end' = [end EXCEPT ![TO_RESPONDER] = RecvReplyEnd(@, cd)]
    /\ assert_failed' = assert_failed \cup RecvReplyAsserts(end[TO_RESPONDER], cd)
    /\ recv_log' = recv_log

fr_channel_recv_reply ==
    LET cd == Head(aq[TO_REQUESTOR]) IN
    /\ aq' = [aq EXCEPT ![TO_REQUESTOR] = Tail(@)]
    /\ end' = [end EXCEPT ![TO_RESPONDER] = RecvReplyEnd(@, cd)]
    /\ assert_failed' = assert_failed \cup RecvReplyAsserts(end[TO_RESPONDER], cd)
    /\ recv_log' = [recv_log EXCEPT ![TO_RESPONDER] = Append(@, cd)]

\* a faulty fr_channel_recv_request that keeps its counters in the end of
\* the requestor
fr_channel_recv_request_OtherEnd ==
    LET cd == Head(aq[TO_RESPONDER]) IN
    /\ aq' = [aq EXCEPT ![TO_RESPONDER] = Tail(@)]
    /\ end' = [end EXCEPT ![TO_RESPONDER] = RecvRequestEnd(@, cd)]
    /\ assert_failed' = assert_failed \cup RecvRequestAsserts(end[TO_REQUESTOR], cd)
    /\ recv_log' = [recv_log EXCEPT ![TO_REQUESTOR] = Append(@, cd)]

fr_channel_recv_request ==
    LET cd == Head(aq[TO_RESPONDER]) IN
    /\ aq' = [aq EXCEPT ![TO_RESPONDER] = Tail(@)]
    /\ end' = [end EXCEPT ![TO_REQUESTOR] = RecvRequestEnd(@, cd)]
    /\ assert_failed' = assert_failed \cup RecvRequestAsserts(end[TO_REQUESTOR], cd)
    /\ recv_log' = [recv_log EXCEPT ![TO_REQUESTOR] = Append(@, cd)]

\* fr_channel_data_ready(ch, when, end[e], which) with the transport's outcome ok
fr_channel_data_ready(e, which, ok) ==
    /\ end' = [end EXCEPT ![e] = DataReadyEnd(@)]
    /\ control' = ControlSend(e, [signal |-> which, ack |-> end[e].ack], ok)
    /\ ctl_sent' = CountSend(e)

(***************************************************************************)
(* The requestor thread.  Whether a send returned 0 or -1 is recorded in   *)
(* sent_ok and failed.                                                     *)
(***************************************************************************)
\* fr_channel_send_request up to and including the push
SendRequest ==
    /\ pc[REQUESTOR] = "idle"
    /\ UNCHANGED <<lst_vars, rcode>>
    /\ MayTrySend(TO_RESPONDER)
    /\ LET requestor == end[TO_RESPONDER]
           id == next_id[TO_RESPONDER] + 1
           cd == IF same_thread THEN Descriptor(id, 0, 0)
                 ELSE Descriptor(id, requestor.sequence + 1, requestor.ack)
       IN /\ next_id' = [next_id EXCEPT ![TO_RESPONDER] = id]
          /\ IF same_thread THEN
                /\ recv_log' = [recv_log EXCEPT ![TO_REQUESTOR] = Append(@, cd)]
                /\ sent_ok' = [sent_ok EXCEPT ![TO_RESPONDER] = Append(@, id)]
                /\ UNCHANGED <<aq, end, pc, failed, tentative, assert_failed>>
             ELSE IF ~CanPush(aq[TO_RESPONDER]) THEN
                /\ failed' = [failed EXCEPT ![TO_RESPONDER] = @ \cup {id}]
                /\ tentative' = [tentative EXCEPT ![TO_RESPONDER] = cd.sequence]
                /\ pc' = [pc EXCEPT ![REQUESTOR] = "send_request_full"]
                /\ UNCHANGED <<aq, end, sent_ok, recv_log, assert_failed>>
             ELSE
                /\ aq' = [aq EXCEPT ![TO_RESPONDER] = Append(@, cd)]
                /\ tentative' = [tentative EXCEPT ![TO_RESPONDER] = 0]
                /\ sent_ok' = [sent_ok EXCEPT ![TO_RESPONDER] = Append(@, id)]
                /\ end' = [end EXCEPT ![TO_RESPONDER] = SendRequestEnd(@, cd)]
                /\ assert_failed' = assert_failed \cup SendRequestAsserts(requestor, cd)
                /\ pc' = [pc EXCEPT ![REQUESTOR] = "send_request_signal"]
                /\ UNCHANGED <<failed, recv_log>>
    /\ UNCHANGED <<ctl_sent, same_thread, active, control, event, null_replies, closing, opened>>

\* a faulty failure path that returns -1 without draining the replies
SendRequestFull_NoDrain ==
    /\ pc[REQUESTOR] = "send_request_full"
    /\ UNCHANGED <<lst_vars, rcode>>
    /\ pc' = [pc EXCEPT ![REQUESTOR] = "idle"]
    /\ UNCHANGED <<aq, end, assert_failed, recv_log>>
    /\ UNCHANGED <<tentative, ctl_sent, same_thread, active, control, event,
                   next_id, sent_ok, failed, null_replies, closing, opened>>

\* fr_channel_send_request after a failed push: while (fr_channel_recv_reply(ch));
\* and return -1
SendRequestFull ==
    /\ pc[REQUESTOR] = "send_request_full"
    /\ UNCHANGED <<lst_vars, rcode>>
    /\ IF aq[TO_REQUESTOR] # <<>> THEN
          /\ fr_channel_recv_reply
          /\ UNCHANGED pc
       ELSE
          /\ pc' = [pc EXCEPT ![REQUESTOR] = "idle"]
          /\ UNCHANGED <<aq, end, assert_failed, recv_log>>
    /\ UNCHANGED <<tentative, ctl_sent, same_thread, active, control, event,
                   next_id, sent_ok, failed, null_replies, closing, opened>>

\* fr_channel_send_request after a successful push: signal the responder, return 0
SendRequestSignal ==
    /\ pc[REQUESTOR] = "send_request_signal"
    /\ UNCHANGED <<lst_vars, rcode>>
    /\ \E ok \in SendOutcomes(TO_RESPONDER) :
          fr_channel_data_ready(TO_RESPONDER, FR_CHANNEL_SIGNAL_DATA_TO_RESPONDER, ok)
    /\ pc' = [pc EXCEPT ![REQUESTOR] = "idle"]
    /\ UNCHANGED <<tentative, same_thread, active, aq, event, next_id, sent_ok,
                   failed, recv_log, null_replies, closing, opened,
                   assert_failed>>

\* a direct call of fr_channel_recv_reply
RecvReply ==
    /\ pc[REQUESTOR] = "idle"
    /\ UNCHANGED <<lst_vars, rcode>>
    /\ IF aq[TO_REQUESTOR] # <<>> THEN
          /\ fr_channel_recv_reply
          /\ UNCHANGED <<tentative, ctl_sent, same_thread, active, control, pc,
                         event, next_id, sent_ok, failed, null_replies,
                         closing, opened>>
       ELSE UNCHANGED vars

\* fr_channel_signal_responder_close
SignalResponderClose ==
    /\ pc[REQUESTOR] = "idle"
    /\ UNCHANGED <<lst_vars, rcode>>
    /\ REQUESTOR \notin closing
    /\ closing' = closing \cup {REQUESTOR}
    /\ active' = FALSE
    /\ \E ok \in SendOutcomes(TO_RESPONDER) :
          control' = ControlSend(TO_RESPONDER,
                         [signal |-> FR_CHANNEL_SIGNAL_CLOSE, ack |-> TO_RESPONDER], ok)
    /\ UNCHANGED <<tentative, ctl_sent, same_thread, end, aq, pc, event,
                   next_id, sent_ok, failed, recv_log, null_replies, opened,
                   assert_failed>>

\* fr_channel_signal_open: the requestor hands the channel to the responder
\* before it sends a request or closes the channel
SignalOpen ==
    /\ pc[REQUESTOR] = "idle"
    /\ UNCHANGED <<lst_vars, rcode>>
    /\ ~opened
    /\ next_id[TO_RESPONDER] = 0
    /\ REQUESTOR \notin closing
    /\ opened' = TRUE
    /\ \E ok \in SendOutcomes(TO_RESPONDER) :
          control' = ControlSend(TO_RESPONDER,
                         [signal |-> FR_CHANNEL_SIGNAL_OPEN, ack |-> 0], ok)
    /\ UNCHANGED <<tentative, ctl_sent, same_thread, active, end, aq, pc,
                   event, next_id, sent_ok, failed, recv_log, null_replies,
                   closing, assert_failed>>

(***************************************************************************)
(* The responder thread.  It answers each request its callback has seen at *)
(* most once, with fr_channel_send_reply or with fr_channel_null_reply.    *)
(***************************************************************************)
\* a faulty check that lets the same-thread path go ahead of the active flag
SendReplyRefused_CrossThreadOnly == ~active /\ ~same_thread

\* a faulty check with the test of the active flag the wrong way round
SendReplyRefused_Inverted == active

\* the check fr_channel_send_reply starts with
SendReplyRefused == ~active

\* fr_channel_send_reply up to the push: the active and same_thread checks
SendReply ==
    /\ pc[RESPONDER] = "idle"
    /\ UNCHANGED <<lst_vars, rcode>>
    /\ Unanswered > 0
    /\ MayTrySend(TO_REQUESTOR)
    /\ LET id == next_id[TO_REQUESTOR] + 1
           cd == Descriptor(id, 0, 0)
       IN /\ next_id' = [next_id EXCEPT ![TO_REQUESTOR] = id]
          /\ IF SendReplyRefused THEN
                /\ failed' = [failed EXCEPT ![TO_REQUESTOR] = @ \cup {id}]
                /\ UNCHANGED <<pc, sent_ok, recv_log>>
             ELSE IF same_thread THEN
                /\ recv_log' = [recv_log EXCEPT ![TO_RESPONDER] = Append(@, cd)]
                /\ sent_ok' = [sent_ok EXCEPT ![TO_REQUESTOR] = Append(@, id)]
                /\ UNCHANGED <<pc, failed>>
             ELSE
                /\ pc' = [pc EXCEPT ![RESPONDER] = "send_reply_push"]
                /\ UNCHANGED <<failed, sent_ok, recv_log>>
    /\ UNCHANGED <<tentative, ctl_sent, same_thread, active, end, aq, control,
                   event, null_replies, closing, opened, assert_failed>>

\* fr_channel_send_reply: sequence, ack, the push and the counters after it
SendReplyPush ==
    /\ pc[RESPONDER] = "send_reply_push"
    /\ UNCHANGED <<lst_vars, rcode>>
    /\ LET responder == end[TO_REQUESTOR]
           id == next_id[TO_REQUESTOR]
           cd == Descriptor(id, responder.sequence + 1, responder.ack)
       IN IF ~CanPush(aq[TO_REQUESTOR]) THEN
             /\ failed' = [failed EXCEPT ![TO_REQUESTOR] = @ \cup {id}]
             /\ tentative' = [tentative EXCEPT ![TO_REQUESTOR] = cd.sequence]
             /\ pc' = [pc EXCEPT ![RESPONDER] = "send_reply_full"]
             /\ UNCHANGED <<aq, end, sent_ok, assert_failed>>
          ELSE
             /\ aq' = [aq EXCEPT ![TO_REQUESTOR] = Append(@, cd)]
             /\ tentative' = [tentative EXCEPT ![TO_REQUESTOR] = 0]
             /\ sent_ok' = [sent_ok EXCEPT ![TO_REQUESTOR] = Append(@, id)]
             /\ end' = [end EXCEPT ![TO_REQUESTOR] = SendReplyEnd(@, cd)]
             /\ assert_failed' = assert_failed \cup SendReplyAsserts(responder, cd)
             /\ pc' = [pc EXCEPT ![RESPONDER] = "send_reply_drain"]
             /\ UNCHANGED failed
    /\ UNCHANGED <<ctl_sent, same_thread, active, control, event, next_id,
                   recv_log, null_replies, closing, opened>>

\* fr_channel_send_reply after a failed push: while (fr_channel_recv_request(ch));
\* and return -1
SendReplyFull ==
    /\ pc[RESPONDER] = "send_reply_full"
    /\ UNCHANGED <<lst_vars, rcode>>
    /\ IF aq[TO_RESPONDER] # <<>> THEN
          /\ fr_channel_recv_request
          /\ UNCHANGED pc
       ELSE
          /\ pc' = [pc EXCEPT ![RESPONDER] = "idle"]
          /\ UNCHANGED <<aq, end, assert_failed, recv_log>>
    /\ UNCHANGED <<tentative, ctl_sent, same_thread, active, control, event,
                   next_id, sent_ok, failed, null_replies, closing, opened>>

\* fr_channel_send_reply after a successful push: while (fr_channel_recv_request(ch));
SendReplyDrain ==
    /\ pc[RESPONDER] = "send_reply_drain"
    /\ UNCHANGED <<lst_vars, rcode>>
    /\ IF aq[TO_RESPONDER] # <<>> THEN
          /\ fr_channel_recv_request
          /\ UNCHANGED pc
       ELSE
          /\ pc' = [pc EXCEPT ![RESPONDER] = "send_reply_signal"]
          /\ UNCHANGED <<aq, end, assert_failed, recv_log>>
    /\ UNCHANGED <<tentative, ctl_sent, same_thread, active, control, event,
                   next_id, sent_ok, failed, null_replies, closing, opened>>

\* a faulty choice of signal that also holds the signal back while the
\* requestor's view equals sequence_at_last_signal
ReplySignal_HoldsBack(responder) ==
    IF responder.num_outstanding = 0 THEN FR_CHANNEL_SIGNAL_DATA_DONE_RESPONDER
    ELSE IF responder.sequence_at_last_signal >= responder.their_view_of_my_sequence
         THEN "NONE"
         ELSE FR_CHANNEL_SIGNAL_DATA_TO_REQUESTOR

\* the signal fr_channel_send_reply sends after its drain, "NONE" when it
\* returns without signalling
ReplySignal(responder) ==
    IF responder.num_outstanding = 0 THEN FR_CHANNEL_SIGNAL_DATA_DONE_RESPONDER
    ELSE IF responder.sequence_at_last_signal > responder.their_view_of_my_sequence
         THEN "NONE"
         ELSE FR_CHANNEL_SIGNAL_DATA_TO_REQUESTOR

\* fr_channel_send_reply: the signal to the requestor, and return 0
SendReplySignal ==
    /\ pc[RESPONDER] = "send_reply_signal"
    /\ UNCHANGED <<lst_vars, rcode>>
    /\ LET responder == end[TO_REQUESTOR]
           which == ReplySignal(responder)
       IN IF which = "NONE" THEN
             UNCHANGED <<end, control, ctl_sent, assert_failed>>
          ELSE
             /\ \E ok \in SendOutcomes(TO_REQUESTOR) :
                   fr_channel_data_ready(TO_REQUESTOR, which, ok)
             /\ assert_failed' = assert_failed \cup
                   (IF which = FR_CHANNEL_SIGNAL_DATA_TO_REQUESTOR
                    THEN SignalAsserts(responder) ELSE {})
    /\ pc' = [pc EXCEPT ![RESPONDER] = "idle"]
    /\ UNCHANGED <<tentative, same_thread, active, aq, event, next_id, sent_ok,
                   failed, recv_log, null_replies, closing, opened>>

\* fr_channel_null_reply
NullReply ==
    /\ pc[RESPONDER] = "idle"
    /\ UNCHANGED <<lst_vars, rcode>>
    /\ Unanswered > 0
    /\ end' = [end EXCEPT ![TO_REQUESTOR] = NullReplyEnd(@)]
    /\ null_replies' = null_replies + 1
    /\ UNCHANGED <<tentative, ctl_sent, same_thread, active, aq, control, pc,
                   event, next_id, sent_ok, failed, recv_log, closing, opened,
                   assert_failed>>

\* a direct call of fr_channel_recv_request
RecvRequest ==
    /\ pc[RESPONDER] = "idle"
    /\ UNCHANGED <<lst_vars, rcode>>
    /\ IF aq[TO_RESPONDER] # <<>> THEN
          /\ fr_channel_recv_request
          /\ UNCHANGED <<tentative, ctl_sent, same_thread, active, control, pc,
                         event, next_id, sent_ok, failed, null_replies,
                         closing, opened>>
       ELSE UNCHANGED vars

\* fr_channel_responder_sleeping without the test of num_outstanding
ResponderSleeping_IgnoresOutstanding ==
    /\ pc[RESPONDER] = "idle"
    /\ UNCHANGED lst_vars
    /\ LET responder == end[TO_REQUESTOR]
       IN /\ responder.num_signals < MaxSignals
          /\ end' = [end EXCEPT ![TO_REQUESTOR].num_signals = @ + 1]
          /\ \E ok \in SendOutcomes(TO_REQUESTOR) :
                /\ control' = ControlSend(TO_REQUESTOR,
                                  [signal |-> FR_CHANNEL_SIGNAL_RESPONDER_SLEEPING,
                                   ack |-> responder.ack], ok)
                /\ ctl_sent' = CountSend(TO_REQUESTOR)
                /\ rcode' = [called |-> TRUE, rc |-> IF ok THEN 0 ELSE -1]
    /\ UNCHANGED <<tentative, same_thread, active, aq, pc, event, next_id,
                   sent_ok, failed, recv_log, null_replies, closing, opened,
                   assert_failed>>

\* fr_channel_responder_sleeping
ResponderSleeping ==
    /\ pc[RESPONDER] = "idle"
    /\ UNCHANGED lst_vars
    /\ LET responder == end[TO_REQUESTOR]
       IN IF responder.num_outstanding = 0 THEN
             /\ rcode' = [called |-> TRUE, rc |-> 0]
             /\ UNCHANGED <<end, control, ctl_sent>>
          ELSE
             /\ responder.num_signals < MaxSignals
             /\ end' = [end EXCEPT ![TO_REQUESTOR].num_signals = @ + 1]
             /\ \E ok \in SendOutcomes(TO_REQUESTOR) :
                   /\ control' = ControlSend(TO_REQUESTOR,
                                     [signal |-> FR_CHANNEL_SIGNAL_RESPONDER_SLEEPING,
                                      ack |-> responder.ack], ok)
                   /\ ctl_sent' = CountSend(TO_REQUESTOR)
                   /\ rcode' = [called |-> TRUE, rc |-> IF ok THEN 0 ELSE -1]
    /\ UNCHANGED <<tentative, same_thread, active, aq, pc, event, next_id,
                   sent_ok, failed, recv_log, null_replies, closing, opened,
                   assert_failed>>

\* fr_channel_responder_ack_close
ResponderAckClose ==
    /\ pc[RESPONDER] = "idle"
    /\ UNCHANGED <<lst_vars, rcode>>
    /\ RESPONDER \notin closing
    /\ closing' = closing \cup {RESPONDER}
    /\ active' = FALSE
    /\ \E ok \in SendOutcomes(TO_REQUESTOR) :
          control' = ControlSend(TO_REQUESTOR,
                         [signal |-> FR_CHANNEL_SIGNAL_CLOSE, ack |-> TO_REQUESTOR], ok)
    /\ UNCHANGED <<tentative, ctl_sent, same_thread, end, aq, pc, event,
                   next_id, sent_ok, failed, recv_log, null_replies, opened,
                   assert_failed>>

(***************************************************************************)
(* fr_channel_service_message, called by a thread with the next message of *)
(* its own control plane.                                                  *)
(***************************************************************************)
\* a faulty switch without the case for FR_CHANNEL_SIGNAL_CLOSE
ReturnedAsIs_NoClose ==
    {FR_CHANNEL_SIGNAL_ERROR, FR_CHANNEL_SIGNAL_DATA_TO_RESPONDER,
     FR_CHANNEL_SIGNAL_DATA_TO_REQUESTOR, FR_CHANNEL_SIGNAL_OPEN}

\* the signals the switch returns as they are
ReturnedAsIs ==
    {FR_CHANNEL_SIGNAL_ERROR, FR_CHANNEL_SIGNAL_DATA_TO_RESPONDER,
     FR_CHANNEL_SIGNAL_DATA_TO_REQUESTOR, FR_CHANNEL_SIGNAL_OPEN,
     FR_CHANNEL_SIGNAL_CLOSE}

\* a faulty switch that returns every signal as it is
ServiceEvent_AsIs(cs) == cs

\* ce after the switch, for the signals that go on to signal the responder again
ServiceEvent(cs) ==
    IF cs = FR_CHANNEL_SIGNAL_DATA_DONE_RESPONDER THEN FR_CHANNEL_DATA_READY_REQUESTOR
    ELSE IF cs = FR_CHANNEL_SIGNAL_RESPONDER_SLEEPING THEN FR_CHANNEL_NOOP
    ELSE FR_CHANNEL_ERROR

\* the requestor's end before fr_channel_data_ready is called again
ResignalEnd(requestor, cs) ==
    [requestor EXCEPT
        !.must_signal = IF cs \in {FR_CHANNEL_SIGNAL_DATA_DONE_RESPONDER,
                                   FR_CHANNEL_SIGNAL_RESPONDER_SLEEPING}
                        THEN TRUE ELSE @,
        !.num_resignals = @ + 1]

ServiceMessage(t) ==
    /\ pc[t] = "idle"
    /\ UNCHANGED <<lst_vars, rcode>>
    /\ control[Plane(t)] # <<>>
    /\ LET cc == Head(control[Plane(t)])
           cs == cc.signal
           rest == [control EXCEPT ![Plane(t)] = Tail(@)]
       IN IF cs \in ReturnedAsIs THEN
             /\ control' = rest
             /\ event' = [to |-> t, ce |-> cs]
             /\ UNCHANGED <<end, ctl_sent>>
          ELSE
             \E ok \in
                  IF Len(rest[TO_RESPONDER]) < MaxControl THEN {TRUE, FALSE} ELSE {FALSE} :
                /\ end' = [end EXCEPT ![TO_RESPONDER] = DataReadyEnd(ResignalEnd(@, cs))]
                /\ control' =
                      IF ok THEN [rest EXCEPT ![TO_RESPONDER] =
                                     Append(@, [signal |-> FR_CHANNEL_SIGNAL_DATA_TO_RESPONDER,
                                                ack |-> end[TO_RESPONDER].ack])]
                      ELSE rest
                /\ ctl_sent' = CountSend(TO_RESPONDER)
                /\ event' = [to |-> t,
                             ce |-> IF ok THEN ServiceEvent(cs) ELSE FR_CHANNEL_ERROR]
    /\ UNCHANGED <<tentative, same_thread, active, aq, pc, next_id, sent_ok,
                   failed, recv_log, null_replies, closing, opened,
                   assert_failed>>

(***************************************************************************)
(* The specifications.  DataSpec: the runs built from the send and receive *)
(* functions, fr_channel_null_reply and fr_channel_service_message.        *)
(* CloseSpec adds the two close functions, Spec adds fr_channel_signal_open*)
(* and fr_channel_responder_sleeping.                                      *)
(***************************************************************************)
DataNext ==
    \/ SendRequest
    \/ SendRequestFull
    \/ SendRequestSignal
    \/ RecvReply
    \/ SendReply
    \/ SendReplyPush
    \/ SendReplyFull
    \/ SendReplyDrain
    \/ SendReplySignal
    \/ NullReply
    \/ RecvRequest
    \/ \E t \in Threads : ServiceMessage(t)

CloseNext ==
    \/ DataNext
    \/ SignalResponderClose
    \/ ResponderAckClose

Next ==
    \/ CloseNext
    \/ SignalOpen
    \/ ResponderSleeping

DataSpec == Init /\ [][DataNext]_vars

CloseSpec == Init /\ [][CloseNext]_vars

Spec == Init /\ [][Next]_vars

\* the data path with the responder telling the requestor that it sleeps
SignalNext ==
    \/ DataNext
    \/ ResponderSleeping

SignalSpec == Init /\ [][SignalNext]_vars

\* The close handshake around a little traffic: each side sends at most
\* MaxHandshake descriptors, which the queues always have room for.
HandshakeRequest ==
    /\ next_id[TO_RESPONDER] < MaxHandshake
    /\ SendRequest

HandshakeReply ==
    /\ next_id[TO_REQUESTOR] < MaxHandshake
    /\ SendReply

HandshakeNext ==
    \/ HandshakeRequest
    \/ SendRequestSignal
    \/ RecvReply
    \/ HandshakeReply
    \/ SendReplyPush
    \/ SendReplyDrain
    \/ SendReplySignal
    \/ NullReply
    \/ RecvRequest
    \/ SignalResponderClose
    \/ ResponderAckClose
    \/ \E t \in Threads : ServiceMessage(t)

\* each thread runs the function it is in to its end and services its
\* control plane whenever a message waits there
HandshakeLive ==
    /\ Init /\ [][HandshakeNext]_vars
    /\ WF_vars(SendRequestSignal)
    /\ WF_vars(SendReplyPush) /\ WF_vars(SendReplyDrain) /\ WF_vars(SendReplySignal)
    /\ \A t \in Threads : WF_vars(ServiceMessage(t))

(***************************************************************************)
(* Properties of the data path, checked under DataSpec.                    *)
(***************************************************************************)
Ends == {TO_RESPONDER, TO_REQUESTOR}

\* the ids of a sequence of descriptors
Ids(s) == [i \in 1..Len(s) |-> s[i].id]

\* the sequence numbers the callback of end e has been handed, in order
Seen(e) == [i \in 1..Len(recv_log[e]) |-> recv_log[e][i].sequence]

\* C1 as stated: on a cross-thread channel the sequence numbers handed to
\* each receiver's callback are exactly 1, 2, 3, ... with no gaps.
C1_NoGapsEitherDirection ==
    ~same_thread => \A e \in Ends : \A i \in 1..Len(Seen(e)) : Seen(e)[i] = i

\* C1, as the code has it: the requests the responder's callback is handed
\* are numbered 1, 2, 3, ... with no gaps; the replies the requestor's
\* callback is handed have strictly increasing numbers, the i-th reply's
\* number lies between i and i plus the calls of fr_channel_null_reply made
\* so far, so the replies are gap-free as long as null_reply is not called.
C1_Sequencing ==
    ~same_thread =>
        /\ \A i \in 1..Len(Seen(TO_REQUESTOR)) : Seen(TO_REQUESTOR)[i] = i
        /\ \A i \in 1..Len(Seen(TO_RESPONDER)) :
              /\ i <= Seen(TO_RESPONDER)[i]
              /\ Seen(TO_RESPONDER)[i] <= i + null_replies
              /\ i > 1 => Seen(TO_RESPONDER)[i - 1] < Seen(TO_RESPONDER)[i]

\* a reply numbered 2 is the first the requestor is handed, after one null_reply
C1_Witness ==
    /\ ~same_thread
    /\ null_replies = 1
    /\ Seen(TO_RESPONDER) = <<2>>
    /\ Seen(TO_REQUESTOR) = <<1, 2>>

C3_BalancedRun ==
    (/\ ~same_thread
     /\ Len(recv_log[TO_REQUESTOR]) = Len(sent_ok[TO_RESPONDER])
     /\ Len(sent_ok[TO_REQUESTOR]) = Len(sent_ok[TO_RESPONDER])
     /\ Len(recv_log[TO_RESPONDER]) = Len(sent_ok[TO_RESPONDER]))
    => /\ end[TO_RESPONDER].num_outstanding = 0
       /\ end[TO_REQUESTOR].num_outstanding = 0

\* a balanced run of two requests and two replies
C3_Witness ==
    /\ ~same_thread
    /\ Len(sent_ok[TO_RESPONDER]) = 2
    /\ Len(recv_log[TO_REQUESTOR]) = 2
    /\ Len(sent_ok[TO_REQUESTOR]) = 2
    /\ Len(recv_log[TO_RESPONDER]) = 2
    /\ end[TO_RESPONDER].num_packets = 2

\* both threads are between channel operations
BetweenOperations == \A t \in Threads : pc[t] = "idle"

\* C4 as stated: between operations on a cross-thread channel the requestor's
\* num_outstanding is its sequence minus its ack and the responder's is its
\* ack minus the replies it has sent.
C4_OutstandingFromAck ==
    (~same_thread /\ BetweenOperations) =>
        /\ end[TO_RESPONDER].num_outstanding =
              end[TO_RESPONDER].sequence - end[TO_RESPONDER].ack
        /\ end[TO_REQUESTOR].num_outstanding =
              end[TO_REQUESTOR].ack - Len(sent_ok[TO_REQUESTOR])

\* C4, as the code has it: between operations on a cross-thread channel the
\* requestor's num_outstanding is its sequence minus the number of replies it
\* has received, which is sequence - ack when fr_channel_null_reply has not
\* been called and is never less than sequence - ack; the responder's
\* num_outstanding is its ack minus the replies it has sent.
C4_Accounting ==
    (~same_thread /\ BetweenOperations) =>
        /\ end[TO_RESPONDER].num_outstanding =
              end[TO_RESPONDER].sequence - Len(recv_log[TO_RESPONDER])
        /\ end[TO_RESPONDER].num_outstanding >=
              end[TO_RESPONDER].sequence - end[TO_RESPONDER].ack
        /\ null_replies = 0 =>
              end[TO_RESPONDER].num_outstanding =
                 end[TO_RESPONDER].sequence - end[TO_RESPONDER].ack
        /\ end[TO_REQUESTOR].num_outstanding =
              end[TO_REQUESTOR].ack - Len(sent_ok[TO_REQUESTOR])
        /\ end[TO_REQUESTOR].num_packets = Len(sent_ok[TO_REQUESTOR])

\* one request is still unanswered for the requestor although its ack has
\* caught up with its sequence
C4_Witness ==
    /\ ~same_thread
    /\ BetweenOperations
    /\ null_replies = 1
    /\ end[TO_RESPONDER].sequence = 2
    /\ end[TO_RESPONDER].ack = 2
    /\ end[TO_RESPONDER].num_outstanding = 1

\* C5 as stated: ack <= sequence on each of the two ends in every state.
C5_AckAtMostSequence ==
    \A e \in Ends : end[e].ack <= end[e].sequence

\* C5, as the code has it: ack <= sequence holds on the requestor's end; on
\* the responder's end of a cross-thread channel, which numbers its replies
\* after the requests it has received, it is sequence <= ack that holds, for
\* a responder that answers each request at most once.
C5_AckAndSequence ==
    /\ end[TO_RESPONDER].ack <= end[TO_RESPONDER].sequence
    /\ ~same_thread => end[TO_REQUESTOR].sequence <= end[TO_REQUESTOR].ack

\* the responder has received two requests and replied to the first
C5_Witness ==
    /\ end[TO_REQUESTOR].ack = 2
    /\ end[TO_REQUESTOR].sequence = 1
    /\ end[TO_RESPONDER].ack = 1
    /\ end[TO_RESPONDER].sequence = 2

\* C6: for a responder that answers each request it has received at most
\* once, their_view_of_my_sequence <= sequence on each end in every state,
\* and the rad_assert() of it in fr_channel_send_reply never fails.
C6_TheirViewAtMostSequence ==
    /\ \A e \in Ends : end[e].their_view_of_my_sequence <= end[e].sequence
    /\ "send_reply:their_view_of_my_sequence" \notin assert_failed

\* fr_channel_send_reply has passed its rad_assert() and signalled data, and
\* both ends hold a view of their own sequence the peer has sent them
C6_Witness ==
    /\ \E i \in 1..Len(control[TO_REQUESTOR]) :
          control[TO_REQUESTOR][i].signal = FR_CHANNEL_SIGNAL_DATA_TO_REQUESTOR
    /\ end[TO_RESPONDER].their_view_of_my_sequence >= 1
    /\ end[TO_REQUESTOR].their_view_of_my_sequence >= 1

(***************************************************************************)
(* Properties of the close handshake, checked under CloseSpec and          *)
(* HandshakeLive.                                                          *)
(***************************************************************************)
\* C7: once a close function has returned the active flag is false and no
\* step sets it again, and a fr_channel_send_reply that starts while the
\* flag is false returns an error and leaves the queues, the callbacks' logs,
\* both ends (sequence, num_outstanding, num_packets) and the control planes
\* as they were, on same-thread and cross-thread channels alike.
C7_NoReplyAfterClose ==
    /\ [](closing # {} => ~active)
    /\ [][~active => ~active']_vars
    /\ [][(SendReply /\ ~active) =>
            /\ failed'[TO_REQUESTOR] = failed[TO_REQUESTOR] \cup {next_id'[TO_REQUESTOR]}
            /\ next_id'[TO_REQUESTOR] \notin failed[TO_REQUESTOR]
            /\ UNCHANGED <<aq, recv_log, sent_ok, end, control, pc, active>>]_vars

\* a reply was refused on a closed same-thread channel that held a request
C7_Witness ==
    /\ same_thread
    /\ ~active
    /\ Len(recv_log[TO_REQUESTOR]) >= 1
    /\ failed[TO_REQUESTOR] # {}

CloseToResponder == [signal |-> FR_CHANNEL_SIGNAL_CLOSE, ack |-> 0]
CloseToRequestor == [signal |-> FR_CHANNEL_SIGNAL_CLOSE, ack |-> 1]

\* message m waits on the control plane of end e
InFlight(e, m) == \E i \in 1..Len(control[e]) : control[e][i] = m

\* C9: fr_channel_signal_responder_close sends one CLOSE message with ack 0
\* on the responder's control plane and nothing else,
\* fr_channel_responder_ack_close one CLOSE message with ack 1 on the
\* requestor's; fr_channel_service_message returns a CLOSE message as the
\* CLOSE event, changing no end and sending nothing; and when the threads
\* keep servicing their control planes a CLOSE message that was delivered to
\* a plane leads to the CLOSE event for the thread of that plane.
C9_CloseHandshake ==
    /\ [][SignalResponderClose =>
            /\ control'[TO_RESPONDER] \in
                  {control[TO_RESPONDER], Append(control[TO_RESPONDER], CloseToResponder)}
            /\ control'[TO_REQUESTOR] = control[TO_REQUESTOR]]_vars
    /\ [][ResponderAckClose =>
            /\ control'[TO_REQUESTOR] \in
                  {control[TO_REQUESTOR], Append(control[TO_REQUESTOR], CloseToRequestor)}
            /\ control'[TO_RESPONDER] = control[TO_RESPONDER]]_vars
    /\ [][\A t \in Threads :
            (/\ ServiceMessage(t)
             /\ Head(control[Plane(t)]).signal = FR_CHANNEL_SIGNAL_CLOSE) =>
                /\ event' = [to |-> t, ce |-> FR_CHANNEL_CLOSE]
                /\ control' = [control EXCEPT ![Plane(t)] = Tail(@)]
                /\ end' = end]_vars
    /\ InFlight(TO_RESPONDER, CloseToResponder)
          ~> (event = [to |-> RESPONDER, ce |-> FR_CHANNEL_CLOSE])
    /\ InFlight(TO_REQUESTOR, CloseToRequestor)
          ~> (event = [to |-> REQUESTOR, ce |-> FR_CHANNEL_CLOSE])

\* the requestor has got the CLOSE event after both sides closed
C9_Witness ==
    /\ closing = Threads
    /\ event = [to |-> REQUESTOR, ce |-> FR_CHANNEL_CLOSE]
    /\ control = [e \in Ends |-> <<>>]

(***************************************************************************)
(* Properties of fr_channel_service_message, checked under Spec.           *)
(***************************************************************************)
\* the message fr_channel_service_message signals the responder with again
Resignal(requestor) ==
    [signal |-> FR_CHANNEL_SIGNAL_DATA_TO_RESPONDER, ack |-> requestor.ack]

\* C10: fr_channel_service_message returns ERROR, DATA_TO_RESPONDER,
\* DATA_TO_REQUESTOR, OPEN and CLOSE as the event of the same value, changing
\* no state of the channel and sending nothing; for DATA_DONE_RESPONDER it
\* returns DATA_READY_REQUESTOR and for RESPONDER_SLEEPING it returns NOOP,
\* and in these two cases and no other it adds one to the requestor end's
\* num_resignals and sends one DATA_TO_RESPONDER message to the responder,
\* or returns ERROR when that send fails.
C10_ServiceMessage ==
    [][\A t \in Threads : ServiceMessage(t) =>
          LET cs == Head(control[Plane(t)]).signal
              rest == [control EXCEPT ![Plane(t)] = Tail(@)]
          IN /\ UNCHANGED <<active, aq, end[TO_REQUESTOR]>>
             /\ cs \in {FR_CHANNEL_SIGNAL_ERROR, FR_CHANNEL_SIGNAL_DATA_TO_RESPONDER,
                        FR_CHANNEL_SIGNAL_DATA_TO_REQUESTOR, FR_CHANNEL_SIGNAL_OPEN,
                        FR_CHANNEL_SIGNAL_CLOSE} =>
                   /\ event' = [to |-> t, ce |-> cs]
                   /\ end' = end
                   /\ control' = rest
             /\ cs \in {FR_CHANNEL_SIGNAL_DATA_DONE_RESPONDER,
                        FR_CHANNEL_SIGNAL_RESPONDER_SLEEPING} =>
                   /\ end'[TO_RESPONDER].num_resignals =
                         end[TO_RESPONDER].num_resignals + 1
                   /\ \/ /\ control' = [rest EXCEPT ![TO_RESPONDER] =
                                           Append(@, Resignal(end[TO_RESPONDER]))]
                         /\ event' =
                               [to |-> t,
                                ce |-> IF cs = FR_CHANNEL_SIGNAL_DATA_DONE_RESPONDER
                                       THEN FR_CHANNEL_DATA_READY_REQUESTOR
                                       ELSE FR_CHANNEL_NOOP]
                      \/ /\ control' = rest
                         /\ event' = [to |-> t, ce |-> FR_CHANNEL_ERROR]]_vars

\* the requestor got NOOP for a RESPONDER_SLEEPING message and signalled the
\* responder again
C10_Witness ==
    /\ event = [to |-> REQUESTOR, ce |-> FR_CHANNEL_NOOP]
    /\ end[TO_RESPONDER].num_resignals = 1
    /\ InFlight(TO_RESPONDER, Resignal(end[TO_RESPONDER]))

(***************************************************************************)
(* Properties of the same-thread path, checked under CloseSpec.            *)
(***************************************************************************)
\* C11: on an active same-thread channel each fr_channel_send_request hands
\* the caller's descriptor to the request callback and each
\* fr_channel_send_reply hands it to the reply callback, once, within the
\* call, and succeeds; no queue is pushed to, no control message is sent and
\* no field of either end changes, so that while the channel is active each
\* callback has seen exactly the descriptors sent to it, in the order sent.
C11_SameThreadSends ==
    /\ [][(same_thread /\ active /\ SendRequest) =>
            LET id == next_id'[TO_RESPONDER] IN
            /\ recv_log'[TO_REQUESTOR] =
                  Append(recv_log[TO_REQUESTOR], Descriptor(id, 0, 0))
            /\ sent_ok'[TO_RESPONDER] = Append(sent_ok[TO_RESPONDER], id)
            /\ pc'[REQUESTOR] = "idle"
            /\ UNCHANGED <<aq, control, end, failed, recv_log[TO_RESPONDER]>>]_vars
    /\ [][(same_thread /\ active /\ SendReply) =>
            LET id == next_id'[TO_REQUESTOR] IN
            /\ recv_log'[TO_RESPONDER] =
                  Append(recv_log[TO_RESPONDER], Descriptor(id, 0, 0))
            /\ sent_ok'[TO_REQUESTOR] = Append(sent_ok[TO_REQUESTOR], id)
            /\ pc'[RESPONDER] = "idle"
            /\ UNCHANGED <<aq, control, end, failed, recv_log[TO_REQUESTOR]>>]_vars
    /\ []((same_thread /\ active) =>
            \A e \in Ends :
               /\ Ids(recv_log[Other(e)]) = [i \in 1..next_id[e] |-> i]
               /\ sent_ok[e] = Ids(recv_log[Other(e)]))

\* two requests and two replies went through the callbacks of an active
\* same-thread channel whose ends are as fr_channel_create left them
C11_Witness ==
    /\ same_thread
    /\ active
    /\ Ids(recv_log[TO_REQUESTOR]) = <<1, 2>>
    /\ Ids(recv_log[TO_RESPONDER]) = <<1, 2>>
    /\ end = [e \in Ends |-> fr_channel_end_t]
    /\ control = [e \in Ends |-> <<>>]

(***************************************************************************)
(* Properties of a send into a full queue, checked under DataSpec.         *)
(***************************************************************************)
\* the fields of an end a failed send must leave alone
SenderFields(e) == <<e.sequence, e.num_packets, e.last_write>>

\* what a send that finds its outbound queue full does, up to its return:
\* it fails without a push, drains its inbound queue through the receive
\* function until that queue is empty, sends no control message and leaves
\* the sender's sequence, num_packets and last_write unchanged
FullQueueSend ==
    /\ [][(SendRequest /\ ~same_thread /\ Len(aq[TO_RESPONDER]) >= MaxQueue) =>
            /\ failed'[TO_RESPONDER] = failed[TO_RESPONDER] \cup {next_id'[TO_RESPONDER]}
            /\ pc'[REQUESTOR] = "send_request_full"
            /\ UNCHANGED <<aq, end, control, sent_ok, recv_log>>]_vars
    /\ [][SendRequestFull =>
            /\ UNCHANGED <<control, sent_ok, failed, aq[TO_RESPONDER], end[TO_REQUESTOR]>>
            /\ SenderFields(end'[TO_RESPONDER]) = SenderFields(end[TO_RESPONDER])
            /\ IF aq[TO_REQUESTOR] # <<>>
               THEN /\ aq'[TO_REQUESTOR] = Tail(aq[TO_REQUESTOR])
                    /\ recv_log'[TO_RESPONDER] =
                          Append(recv_log[TO_RESPONDER], Head(aq[TO_REQUESTOR]))
                    /\ pc'[REQUESTOR] = "send_request_full"
               ELSE pc'[REQUESTOR] = "idle"]_vars
    /\ [][(SendReplyPush /\ Len(aq[TO_REQUESTOR]) >= MaxQueue) =>
            /\ failed'[TO_REQUESTOR] = failed[TO_REQUESTOR] \cup {next_id[TO_REQUESTOR]}
            /\ pc'[RESPONDER] = "send_reply_full"
            /\ UNCHANGED <<aq, end, control, sent_ok, recv_log>>]_vars
    /\ [][SendReplyFull =>
            /\ UNCHANGED <<control, sent_ok, failed, aq[TO_REQUESTOR], end[TO_RESPONDER]>>
            /\ SenderFields(end'[TO_REQUESTOR]) = SenderFields(end[TO_REQUESTOR])
            /\ IF aq[TO_RESPONDER] # <<>>
               THEN /\ aq'[TO_RESPONDER] = Tail(aq[TO_RESPONDER])
                    /\ recv_log'[TO_REQUESTOR] =
                          Append(recv_log[TO_REQUESTOR], Head(aq[TO_RESPONDER]))
                    /\ pc'[RESPONDER] = "send_reply_full"
               ELSE pc'[RESPONDER] = "idle"]_vars

\* C12 as stated: a send into a full queue behaves as FullQueueSend says, and
\* the sequence number it wrote into the descriptor is the one the end's next
\* successful send uses: until a send of that end succeeds, the end's
\* sequence + 1 is still that number.
C12_FailedSendNumberReused ==
    /\ FullQueueSend
    /\ [](\A e \in Ends : tentative[e] # 0 => end[e].sequence + 1 = tentative[e])

\* C12, as the code has it: a send into a full queue behaves as
\* FullQueueSend says.  The number a failed fr_channel_send_request wrote is
\* used by the requestor's next successful send; the number a failed
\* fr_channel_send_reply wrote is used by the responder's next successful
\* send unless fr_channel_null_reply is called first, which takes a number
\* for itself: the next reply's number lies at most the number of null
\* replies above it.
C12_FailedSend ==
    /\ FullQueueSend
    /\ [](tentative[TO_RESPONDER] # 0 =>
             end[TO_RESPONDER].sequence + 1 = tentative[TO_RESPONDER])
    /\ [](tentative[TO_REQUESTOR] # 0 =>
             /\ tentative[TO_REQUESTOR] <= end[TO_REQUESTOR].sequence + 1
             /\ end[TO_REQUESTOR].sequence + 1 <= tentative[TO_REQUESTOR] + null_replies)

\* the request sent after a failed one carried the failed one's number 2, and
\* the number 2 of a failed reply has gone to a null reply
C12_Witness ==
    /\ failed[TO_RESPONDER] = {2}
    /\ Ids(recv_log[TO_REQUESTOR]) = <<1, 3>>
    /\ Seen(TO_REQUESTOR) = <<1, 2>>
    /\ tentative[TO_REQUESTOR] = 2
    /\ end[TO_REQUESTOR].sequence = 2
    /\ null_replies = 1
    /\ BetweenOperations

(***************************************************************************)
(* Properties of the signal counters, checked under SignalSpec.            *)
(***************************************************************************)
\* C13: on a cross-thread channel, in runs without open and close messages,
\* the control messages an end has sent (a fortiori those that are on its
\* control plane) never exceed the end's num_signals + num_resignals.
C13_SignalsCounted ==
    ~same_thread =>
        \A e \in Ends :
            /\ ctl_sent[e] <= end[e].num_signals + end[e].num_resignals
            /\ Len(control[e]) <= ctl_sent[e]

\* the requestor signalled a request and signalled again for a message of
\* the responder, which has sent a sleeping and a data message
C13_Witness ==
    /\ ~same_thread
    /\ end[TO_RESPONDER].num_resignals = 1
    /\ ctl_sent[TO_RESPONDER] = 2
    /\ ctl_sent[TO_REQUESTOR] = 2
    /\ end[TO_REQUESTOR].num_signals = 2

(***************************************************************************)
(* The leftmost skeleton tree: src/lib/util/lst.c and unnamed/part_000.    *)
(* The operators take and return the value L of the fr_lst_t.              *)
(***************************************************************************)
\* data of an element; the callers below never ask for the data of NULL
\* without setting fault
DataOf(e) == IF e = NULL THEN 0 ELSE data[e]

\* heap_cmp of the tests: the order of the elements' data
cmp(a, b) ==
    IF DataOf(a) > DataOf(b) THEN 1
    ELSE IF DataOf(b) > DataOf(a) THEN -1 ELSE 0

\* reduce: _index & (capacity - 1), capacity being a power of two
reduce(L, index) == index % L.capacity

equivalent(L, index1, index2) == reduce(L, index1 - index2) = 0

item(L, index) == L.p[reduce(L, index)]

stack_depth(L) == L.s.depth

\* s->data[index]; the entries above depth keep what was written to them,
\* an entry never written reads as 0
stack_item(L, index) ==
    IF index + 1 \in DOMAIN L.s.data THEN L.s.data[index + 1] ELSE 0

stack_set(L, index, new_value) ==
    LET old == L.s.data
        n == IF index + 1 > Len(old) THEN index + 1 ELSE Len(old)
    IN  [L EXCEPT !.s.data =
            [i \in 1 .. n |-> IF i = index + 1 THEN new_value
                              ELSE IF i <= Len(old) THEN old[i] ELSE 0]]

\* stack_push: s->data[s->depth++] = pivot (the stack never fills here: it
\* holds 32 entries before it grows and the array holds less)
stack_push(L, pivot) ==
    [stack_set(L, L.s.depth, pivot) EXCEPT !.s.depth = @ + 1]

stack_pop(L, n) == [L EXCEPT !.s.depth = @ - n]

lst_length(L, stack_index) == stack_depth(L) - stack_index

is_bucket(L, stack_index) == lst_length(L, stack_index) = 1

lst_size(L, stack_index) ==
    LET reduced_right == reduce(L, stack_item(L, stack_index))
        reduced_idx == reduce(L, L.idx)
    IN  IF stack_index = 0 THEN L.num_elements
        ELSE IF reduced_idx <= reduced_right THEN reduced_right - reduced_idx
        ELSE (L.capacity - reduced_idx) + reduced_right

lst_flatten(L, stack_index) ==
    stack_pop(L, stack_depth(L) - (stack_index + 0))

\* lst_move: lst.c returns -1 for a NULL element and moves nothing; the
\* revision writes the slot and then the back-index inside the NULL element
lst_move(L, location, d) ==
    IF d = NULL THEN
        IF revision = "lst.c" THEN L
        ELSE [L EXCEPT !.p[reduce(L, location)] = NULL, !.fault = TRUE]
    ELSE [L EXCEPT !.p[reduce(L, location)] = d,
                   !.item_index[d] = reduce(L, location)]

\* the loop of bucket_add, from rindex up to stack_index - 1
RECURSIVE bucket_add_loop(_, _, _)
bucket_add_loop(L, rindex, stack_index) ==
    IF rindex >= stack_index THEN L
    ELSE
        LET prev_pivot_index == stack_item(L, rindex + 1)
            new_space == stack_item(L, rindex)
            empty_bucket == (new_space - prev_pivot_index) = 1
            L1 == stack_set(L, rindex, new_space + 1)
            L2 == IF ~empty_bucket
                  THEN lst_move(L1, new_space, item(L1, prev_pivot_index + 1))
                  ELSE L1
            L3 == lst_move(L2, prev_pivot_index + 1, item(L2, prev_pivot_index))
        IN  bucket_add_loop(L3, rindex + 1, stack_index)

bucket_add(L, stack_index, d) ==
    LET L1 == bucket_add_loop(L, 0, stack_index)
        new_space == stack_item(L1, stack_index)
        L2 == stack_set(L1, stack_index, new_space + 1)
        L3 == lst_move(L2, new_space, d)
    IN  [L3 EXCEPT !.num_elements = @ + 1]

\* lst_reduce_indices of the revision; lst.c has the same loop in lst_expand
lst_reduce_indices(L) ==
    LET reduced_idx == reduce(L, L.idx)
    IN  [L EXCEPT !.s.data = [i \in DOMAIN L.s.data |->
                                 IF i <= L.s.depth
                                 THEN reduced_idx + L.s.data[i] - L.idx
                                 ELSE L.s.data[i]],
                  !.idx = reduced_idx]

\* a faulty lst_expand that leaves the elements before idx where they are
lst_expand_move_none(L, i, old_capacity) == L

\* the second loop of lst_expand: the elements before idx go to the new half
RECURSIVE lst_expand_move(_, _, _)
lst_expand_move(L, i, old_capacity) ==
    IF i >= L.idx THEN L
    ELSE
        LET to_be_moved == item(L, i)
        IN  IF to_be_moved = NULL THEN [L EXCEPT !.fault = TRUE]
            ELSE lst_expand_move(
                     lst_move(L, L.item_index[to_be_moved] + old_capacity,
                              to_be_moved),
                     i + 1, old_capacity)

\* lst_expand once talloc_realloc has succeeded.  lst.c reduces idx by the
\* old capacity, the revision calls lst_reduce_indices after it has doubled
\* the capacity
lst_expand(L) ==
    LET old_capacity == L.capacity
        doubled == [L EXCEPT !.capacity = 2 * L.capacity]
        L1 == IF revision = "lst.c"
              THEN [lst_reduce_indices(L) EXCEPT !.capacity = 2 * L.capacity]
              ELSE lst_reduce_indices(doubled)
    IN  lst_expand_move(L1, 0, old_capacity)

\* the loop of fr_lst_insert: the stack index of the bucket d goes to, and
\* whether the tree is flattened there.  fr_fast_rand() % (size + 1) is 0
\* for sure when the subtree is empty, and at flatten_at when it is not.
RECURSIVE insert_index(_, _, _, _)
insert_index(L, d, stack_index, flatten_at) ==
    IF is_bucket(L, stack_index)
    THEN [stack_index |-> stack_index, flatten |-> FALSE, fault |-> FALSE]
    ELSE IF stack_index # 0
            /\ (lst_size(L, stack_index) = 0 \/ stack_index = flatten_at)
    THEN [stack_index |-> stack_index, flatten |-> TRUE, fault |-> FALSE]
    ELSE IF item(L, stack_item(L, stack_index + 1)) = NULL
    THEN [stack_index |-> stack_index, flatten |-> FALSE, fault |-> TRUE]
    ELSE IF cmp(d, item(L, stack_item(L, stack_index + 1))) >= 0
    THEN [stack_index |-> stack_index, flatten |-> FALSE, fault |-> FALSE]
    ELSE insert_index(L, d, stack_index + 1, flatten_at)

\* fr_lst_insert returns -1 when the array is full and cannot grow
insert_fails(L, realloc_ok) == L.num_elements = L.capacity /\ ~realloc_ok

fr_lst_insert(L, d, realloc_ok, flatten_at) ==
    IF insert_fails(L, realloc_ok) THEN L
    ELSE
        LET L1 == IF L.num_elements = L.capacity THEN lst_expand(L) ELSE L
            at == insert_index(L1, d, 0, flatten_at)
            L2 == IF at.flatten THEN lst_flatten(L1, at.stack_index) ELSE L1
        IN  IF L1.fault \/ at.fault THEN [L1 EXCEPT !.fault = TRUE]
            ELSE bucket_add(L2, at.stack_index, d)

bucket_lwb(L, stack_index) ==
    IF is_bucket(L, stack_index) THEN L.idx
    ELSE stack_item(L, stack_index + 1) + 1

bucket_upb(L, stack_index) == stack_item(L, stack_index) - 1

\* exchange the elements at i and j, as the partitions do through temp
swap(L, i, j) ==
    LET temp == item(L, i)
    IN  lst_move(lst_move(L, i, item(L, j)), j, temp)

\* the Lomuto loop of lst.c: j runs from low to high - 1; the result is the
\* array and the last i
RECURSIVE lomuto(_, _, _, _, _)
lomuto(L, i, j, high, pivot) ==
    IF j >= high THEN [L |-> L, i |-> i]
    ELSE IF cmp(item(L, j), pivot) < 0
    THEN lomuto(swap(L, i + 1, j), i + 1, j + 1, high, pivot)
    ELSE lomuto(L, i, j + 1, high, pivot)

\* partition of lst.c; r is what fr_fast_rand returned
partition_lomuto(L, stack_index, r) ==
    LET low == bucket_lwb(L, stack_index)
        high == bucket_upb(L, stack_index)
        pivot_index == low + (r % (high + 1 - low))
        pivot == item(L, pivot_index)
        L1 == IF pivot_index # high
              THEN lst_move(lst_move(L, pivot_index, item(L, high)), high, pivot)
              ELSE L
        done == lomuto(L1, low - 1, low, high, pivot)
        i == done.i + 1
        L2 == lst_move(done.L, high, item(done.L, i))
        L3 == lst_move(L2, i, pivot)
    IN  stack_push(L3, i)

\* while (cmp(item(--h), pivot) > 0) ;
RECURSIVE hoare_down(_, _, _)
hoare_down(L, h, pivot) ==
    IF cmp(item(L, h - 1), pivot) > 0 THEN hoare_down(L, h - 1, pivot)
    ELSE h - 1

\* while (cmp(item(++l), pivot) < 0) ;
RECURSIVE hoare_up(_, _, _)
hoare_up(L, l, pivot) ==
    IF cmp(item(L, l + 1), pivot) < 0 THEN hoare_up(L, l + 1, pivot)
    ELSE l + 1

\* the Hoare loop of the revision; the result is the array and the last h
RECURSIVE hoare(_, _, _, _)
hoare(L, l, h, pivot) ==
    LET h1 == hoare_down(L, h, pivot)
        l1 == hoare_up(L, l, pivot)
    IN  IF l1 >= h1 THEN [L |-> L, h |-> h1]
        ELSE hoare(swap(L, l1, h1), l1, h1, pivot)

\* a faulty partition of the revision that pushes the h of the Hoare loop
\* without bringing the pivot to it
partition_hoare_uncanonical(L, stack_index, r) ==
    LET low == bucket_lwb(L, stack_index)
        high == bucket_upb(L, stack_index)
        first == low + (r % (high + 1 - low))
        pivot == item(L, first)
        L1 == IF first # low
              THEN lst_move(lst_move(L, first, item(L, low)), low, pivot)
              ELSE L
        done == hoare(L1, low - 1, high + 1, pivot)
    IN  IF equivalent(L, low, high) THEN stack_push(L, low)
        ELSE stack_push(done.L, done.h)

\* partition of the revision
partition_hoare(L, stack_index, r) ==
    LET low == bucket_lwb(L, stack_index)
        high == bucket_upb(L, stack_index)
        first == low + (r % (high + 1 - low))
        pivot == item(L, first)
        L1 == IF first # low
              THEN lst_move(lst_move(L, first, item(L, low)), low, pivot)
              ELSE L
        done == hoare(L1, low - 1, high + 1, pivot)
        L2 == done.L
        reduced == L2.item_index[pivot]
        pivot_index == IF reduced >= reduce(L2, low)
                       THEN low + reduced - reduce(L2, low)
                       ELSE high - (reduce(L2, high) - reduced)
        h == IF pivot_index > done.h THEN done.h + 1 ELSE done.h
        L3 == IF pivot_index # done.h
              THEN lst_move(lst_move(L2, pivot_index, item(L2, h)), h, pivot)
              ELSE L2
    IN  IF equivalent(L, low, high) THEN stack_push(L, low)
        ELSE stack_push(L3, h)

partition(L, stack_index, r) ==
    IF revision = "lst.c" THEN partition_lomuto(L, stack_index, r)
    ELSE partition_hoare(L, stack_index, r)

\* for (stack_index = depth; stack_item(--stack_index) < location; ) ;
\* -1 when the scan runs off the bottom of the stack
RECURSIVE scan(_, _, _)
scan(L, stack_index, location) ==
    IF stack_index < 0 THEN -1
    ELSE IF stack_item(L, stack_index) < location
    THEN scan(L, stack_index - 1, location)
    ELSE stack_index

\* the for (;;) loop of bucket_delete
RECURSIVE bucket_delete_loop(_, _, _)
bucket_delete_loop(L, stack_index, location) ==
    LET top == bucket_upb(L, stack_index)
        L1 == IF ~equivalent(L, location, top)
              THEN lst_move(L, location, item(L, top))
              ELSE L
        L2 == stack_set(L1, stack_index, top)
    IN  IF stack_index = 0 THEN L2
        ELSE bucket_delete_loop(lst_move(L2, top, item(L2, top + 1)),
                                stack_index - 1, top + 1)

bucket_delete(L, d) ==
    LET location == L.item_index[d]
        advanced == [L EXCEPT !.idx = @ + 1]
        stack_index == scan(L, stack_depth(L) - 1, location)
        L1 == IF equivalent(L, location, L.idx) THEN
                  IF revision # "lst.c" /\ equivalent(advanced, advanced.idx, 0)
                  THEN lst_reduce_indices(advanced)
                  ELSE advanced
              ELSE IF stack_index < 0
              THEN [L EXCEPT !.fault = TRUE, !.below = TRUE]
              ELSE bucket_delete_loop(L, stack_index, location)
    IN  [L1 EXCEPT !.num_elements = @ - 1, !.item_index[d] = -1]

\* the do ... while of find_empty_left: the array and the stack index it
\* ends at; rnd[n] is what fr_fast_rand returns to the n-th partition
\* A partition of a bucket whose bounds are out of order divides by what
\* is not a size, and one that meets a NULL slot reads through it.
RECURSIVE find_empty_left_loop(_, _, _, _)
find_empty_left_loop(L, stack_index, rnd, n) ==
    LET part == is_bucket(L, stack_index)
        low == bucket_lwb(L, stack_index)
        high == bucket_upb(L, stack_index)
        bad == \/ high < low
               \/ high - low >= L.capacity
               \/ n > Len(rnd)
               \/ \E i \in low .. high : item(L, i) = NULL
        L1 == IF part THEN partition(L, stack_index, rnd[n]) ELSE L
        n1 == IF part THEN n + 1 ELSE n
    IN  IF part /\ bad
        THEN [L |-> [L EXCEPT !.fault = TRUE], stack_index |-> stack_index]
        ELSE IF lst_size(L1, stack_index + 1) > 0
        THEN find_empty_left_loop(L1, stack_index + 1, rnd, n1)
        ELSE [L |-> L1, stack_index |-> stack_index + 1]

\* a faulty find_empty_left that partitions a bucket once and does not go
\* on to the left
find_empty_left_once(L, rnd) ==
    LET part == is_bucket(L, 0)
        L1 == IF part THEN partition(L, 0, rnd[1]) ELSE L
    IN  [L |-> L1, stack_index |-> 1]

find_empty_left(L, rnd) == find_empty_left_loop(L, 0, rnd, 1)

\* fr_lst_peek: what it returns, and the LST it leaves
fr_lst_peek_at(found) ==
    IF found.L.fault THEN [L |-> found.L, ret |-> NULL]
    ELSE [L |-> found.L,
          ret |-> item(found.L, stack_item(found.L, found.stack_index))]

\* a faulty fr_lst_peek that returns the first pivot find_empty_left meets,
\* not the leftmost one
fr_lst_peek_first_pivot(L, rnd) ==
    IF L.num_elements = 0 THEN [L |-> L, ret |-> NULL]
    ELSE LET found == find_empty_left(L, rnd)
         IN  [L |-> found.L, ret |-> item(found.L, stack_item(found.L, 1))]

fr_lst_peek(L, rnd) ==
    IF L.num_elements = 0 THEN [L |-> L, ret |-> NULL]
    ELSE fr_lst_peek_at(find_empty_left(L, rnd))

\* fr_lst_pop once find_empty_left has found the leftmost pivot
fr_lst_pop_at(found) ==
    LET location == stack_item(found.L, found.stack_index)
        min == item(found.L, location)
        L1 == lst_flatten(found.L, found.stack_index)
    IN  IF found.L.fault THEN [L |-> found.L, ret |-> NULL]
        ELSE IF min = NULL THEN [L |-> [L1 EXCEPT !.fault = TRUE], ret |-> NULL]
        ELSE [L |-> bucket_delete(L1, min), ret |-> min]

fr_lst_pop(L, rnd) ==
    IF L.num_elements = 0 THEN [L |-> L, ret |-> NULL]
    ELSE fr_lst_pop_at(find_empty_left(L, rnd))

\* a faulty fr_lst_extract that does not look at the sign of the back-index
fr_lst_extract_unchecked(L, d) ==
    LET location == L.item_index[d]
        stack_index == scan(L, stack_depth(L) - 1, location)
    IN  IF L.num_elements = 0 THEN [L |-> L, ret |-> -1]
        ELSE IF stack_index < 0
        THEN [L |-> [L EXCEPT !.fault = TRUE, !.below = TRUE], ret |-> -1]
        ELSE [L |-> bucket_delete(L, d), ret |-> 1]

\* fr_lst_extract for an element d that is not NULL: what it returns (1 for
\* a removal, not the 0 of lst.h), and the LST it leaves
fr_lst_extract(L, d) ==
    LET location == L.item_index[d]
        stack_index == scan(L, stack_depth(L) - 1, location)
        L1 == IF stack_item(L, stack_index) = location
              THEN lst_flatten(L, stack_index)
              ELSE L
    IN  IF L.num_elements = 0 THEN [L |-> L, ret |-> -1]
        ELSE IF location < 0 THEN [L |-> L, ret |-> -1]
        ELSE IF stack_index < 0
        THEN [L |-> [L EXCEPT !.fault = TRUE, !.below = TRUE], ret |-> -1]
        ELSE [L |-> bucket_delete(L1, d), ret |-> 1]

\* what item_index(lst, NULL) can yield in the revision: the read through
\* the NULL pointer stops the program (0 stands for that, as does any value
\* that is not negative, since bucket_delete then writes through NULL), or
\* it yields a negative value
NullBackIndex == {-1, 0}

\* fr_lst_extract(lst, NULL): lst.c pops and discards, the revision reads
\* the back-index of the NULL element unless the LST is empty
fr_lst_extract_null(L, rnd, location) ==
    IF revision = "lst.c" THEN
        [fr_lst_pop(L, rnd) EXCEPT !.ret = IF @ # NULL THEN 1 ELSE -1]
    ELSE IF L.num_elements = 0 THEN [L |-> L, ret |-> -1]
    ELSE IF location < 0 THEN [L |-> L, ret |-> -1]
    ELSE [L |-> [L EXCEPT !.fault = TRUE], ret |-> -1]

fr_lst_num_elements(L) == L.num_elements

(***************************************************************************)
(* The calls of the LST, one step each, and what the caller sees.          *)
(***************************************************************************)
\* the entries of the pivot stack above its depth are dead once a call has
\* returned: every later call writes such an entry before it reads it
Settle(L) == [L EXCEPT !.s.data = SubSeq(@, 1, L.s.depth)]

\* talloc_realloc can always fail, and fails once the array has doubled
\* MaxExpand times
ReallocOutcomes(L) ==
    IF L.num_elements < L.capacity THEN {TRUE}
    ELSE IF 2 * L.capacity > MaxCapacity THEN {FALSE}
    ELSE {TRUE, FALSE}

\* what fr_fast_rand can return to the partitions of one find_empty_left
\* on an LST of m elements: the n-th of them splits a bucket of at most
\* m - n + 1 elements, so these values reach every pivot it can pick
RECURSIVE RandomFrom(_, _)
RandomFrom(n, m) ==
    IF n > m THEN {<<>>}
    ELSE {<<r>> \o rest : r \in 0 .. m - n, rest \in RandomFrom(n + 1, m)}

Random(L) == RandomFrom(1, L.num_elements)

\* the reference heap: fr_heap_insert, fr_heap_pop and fr_heap_extract keep
\* the data in order, smallest first
RECURSIVE heap_insert(_, _)
heap_insert(h, k) ==
    IF h = <<>> THEN <<k>>
    ELSE IF k <= Head(h) THEN <<k>> \o h
    ELSE <<Head(h)>> \o heap_insert(Tail(h), k)

RECURSIVE heap_extract(_, _)
heap_extract(h, k) ==
    IF h = <<>> THEN <<>>
    ELSE IF k = Head(h) THEN Tail(h)
    ELSE <<Head(h)>> \o heap_extract(Tail(h), k)

\* fr_lst_insert(lst, &values[e]) for an element that is not in the LST
Insert ==
    /\ ~lst.fault
    /\ UNCHANGED vars
    /\ UNCHANGED qh_vars
    /\ \E e \in Elems \ members :
       \E realloc_ok \in ReallocOutcomes(lst) :
       \E flatten_at \in 0 .. lst.s.depth - 1 :
          LET failed_insert == insert_fails(lst, realloc_ok)
          IN  /\ lst' = Settle(fr_lst_insert(lst, e, realloc_ok, flatten_at))
              /\ members' = IF failed_insert THEN members ELSE members \cup {e}
              /\ inserts' = IF failed_insert THEN inserts ELSE inserts + 1
              /\ heap' = IF failed_insert THEN heap
                         ELSE heap_insert(heap, data[e])
              /\ popped' = IF failed_insert THEN popped ELSE <<>>
              /\ result' = [op |-> "insert", arg |-> e,
                            rc |-> IF failed_insert THEN -1 ELSE 0, ref |-> 0]
              /\ expanded_at' = IF lst.num_elements = lst.capacity /\ realloc_ok
                                THEN lst.idx ELSE expanded_at
    /\ UNCHANGED <<revision, data, removals>>

\* fr_lst_peek(lst)
Peek ==
    /\ ~lst.fault
    /\ UNCHANGED vars
    /\ UNCHANGED qh_vars
    /\ \E rnd \in Random(lst) :
       \E peek \in {fr_lst_peek(lst, rnd)} :
              /\ lst' = Settle(peek.L)
              /\ result' = [op |-> "peek", arg |-> NULL, rc |-> peek.ret,
                            ref |-> 0]
    /\ UNCHANGED <<revision, data, members, inserts, removals, popped, heap,
                   expanded_at>>

\* fr_lst_pop(lst), and fr_heap_pop on the reference heap
Pop ==
    /\ ~lst.fault
    /\ UNCHANGED vars
    /\ UNCHANGED qh_vars
    /\ lst.num_elements > 0 => removals < MaxRemovals
    /\ \E rnd \in Random(lst) :
       \E pop \in {fr_lst_pop(lst, rnd)} :
              /\ lst' = Settle(pop.L)
              /\ members' = members \ {pop.ret}
              /\ removals' = IF pop.ret = NULL THEN removals
                             ELSE removals + 1
              /\ popped' = IF pop.ret = NULL THEN popped
                           ELSE Append(popped, data[pop.ret])
              /\ heap' = IF heap = <<>> THEN heap ELSE Tail(heap)
              /\ result' = [op |-> "pop", arg |-> NULL, rc |-> pop.ret,
                            ref |-> IF heap = <<>> THEN 0 ELSE Head(heap)]
    /\ UNCHANGED <<revision, data, inserts, expanded_at>>

\* fr_lst_extract(lst, &values[e]) for an element that is in the LST or was
\* taken out of it
Extract ==
    /\ ~lst.fault
    /\ UNCHANGED vars
    /\ UNCHANGED qh_vars
    /\ removals < MaxRemovals
    /\ \E e \in Elems :
       \E extract \in {fr_lst_extract(lst, e)} :
              /\ lst.item_index[e] # -2
              /\ lst' = Settle(extract.L)
              /\ members' = IF extract.ret = 1 THEN members \ {e} ELSE members
              /\ removals' = IF extract.ret = 1 THEN removals + 1 ELSE removals
              /\ heap' = IF extract.ret = 1 THEN heap_extract(heap, data[e])
                         ELSE heap
              /\ result' = [op |-> "extract", arg |-> e, rc |-> extract.ret,
                            ref |-> 0]
    /\ UNCHANGED <<revision, data, inserts, popped, expanded_at>>

\* fr_lst_extract(lst, NULL)
ExtractNull ==
    /\ ~lst.fault
    /\ UNCHANGED vars
    /\ UNCHANGED qh_vars
    /\ lst.num_elements > 0 => removals < MaxRemovals
    /\ \E rnd \in Random(lst) :
       \E location \in NullBackIndex :
       \E extract \in {fr_lst_extract_null(lst, rnd, location)} :
          LET gone == members \ {e \in members : extract.L.item_index[e] # -1}
          IN  /\ lst' = Settle(extract.L)
              /\ members' = members \ gone
              /\ removals' = IF extract.ret = 1 THEN removals + 1 ELSE removals
              /\ popped' = IF extract.ret = 1
                           THEN popped \o [i \in 1 .. Cardinality(gone) |->
                                              data[CHOOSE e \in gone : TRUE]]
                           ELSE popped
              /\ heap' = IF extract.ret = 1 /\ heap # <<>> THEN Tail(heap)
                         ELSE heap
              /\ result' = [op |-> "extract", arg |-> NULL, rc |-> extract.ret,
                            ref |-> 0]
    /\ UNCHANGED <<revision, data, inserts, expanded_at>>

\* the LST under inserts and pops, next to the reference heap
LstPopNext ==
    \/ Insert
    \/ Pop

\* the calls of lst.h on elements
LstNext ==
    \/ LstPopNext
    \/ Peek
    \/ Extract

\* every call of lst.h, fr_lst_extract(lst, NULL) too
LstNullNext ==
    \/ LstNext
    \/ ExtractNull

\* the calls of lst_burn_in: inserts, pops and peeks
LstPeekNext ==
    \/ LstPopNext
    \/ Peek

\* The data of the elements: the elements are inserted in any order, so it
\* is enough that element e holds no more than element e + 1.
Values == {d \in [Elems -> 1 .. MaxKey] :
              /\ d[1] = 1
              /\ \A e \in Elems \ {MaxElems} : d[e] <= d[e + 1]}

\* a fresh LST of either revision, with any data in the elements
LstInit ==
    /\ ChannelInit
    /\ ~same_thread
    /\ revision \in {"lst.c", "part_000"}
    /\ QhUnused
    /\ lst = fr_lst_alloc
    /\ data \in Values
    /\ members = {}
    /\ inserts = 0
    /\ removals = 0
    /\ popped = <<>>
    /\ heap = <<>>
    /\ result = [op |-> "none", arg |-> NULL, rc |-> 0, ref |-> 0]
    /\ expanded_at = -1

LstPopSpec == LstInit /\ [][LstPopNext]_<<vars, lst_vars>>

LstPeekSpec == LstInit /\ [][LstPeekNext]_<<vars, lst_vars>>

LstSpec == LstInit /\ [][LstNext]_<<vars, lst_vars>>

LstNullSpec == LstInit /\ [][LstNullNext]_<<vars, lst_vars>>

(***************************************************************************)
(* Properties of the LST.                                                  *)
(***************************************************************************)
Sorted(keys) == \A i \in 1 .. Len(keys) - 1 : keys[i] <= keys[i + 1]

\* C14: after any calls of insert, extract, peek and pop, the elements that
\* pops return one after the other come in non-decreasing order of their
\* data.
C14_PopsInOrder == Sorted(popped)

\* fr_lst_contains of the tests: d is in one of the num_elements slots
\* that start at idx
fr_lst_contains(L, d) ==
    \E i \in 0 .. fr_lst_num_elements(L) - 1 : item(L, i + L.idx) = d

\* the slots of the live region that hold element e
SlotsOf(L, e) == {i \in 0 .. L.num_elements - 1 : item(L, i + L.idx) = e}

\* C15: fr_lst_num_elements is the successful inserts minus the successful
\* removals, the live region holds exactly the elements inserted and not
\* yet removed, each once, and an element that has just been extracted is
\* not in the live region.
C15_Conservation ==
    /\ fr_lst_num_elements(lst) = inserts - removals
    /\ \A e \in Elems :
          Cardinality(SlotsOf(lst, e)) = IF e \in members THEN 1 ELSE 0
    /\ (result.op = "extract" /\ result.rc = 1) =>
          ~fr_lst_contains(lst, result.arg)

\* C16: after every call, every live element e has p[e's back-index] = e
\* with the back-index the reduced position of e, and every element that a
\* pop or an extract has removed has back-index -1.
C16_BackIndex ==
    /\ \A e \in members :
          /\ lst.item_index[e] \in 0 .. lst.capacity - 1
          /\ lst.p[lst.item_index[e]] = e
          /\ \E i \in 0 .. lst.num_elements - 1 :
                lst.item_index[e] = reduce(lst, lst.idx + i)
    /\ \A e \in Elems \ members : lst.item_index[e] \in {-1, -2}

\* the size of the bucket of a stack index, as lst_validate computes it
bucket_size(L, stack_index) ==
    bucket_upb(L, stack_index) - bucket_lwb(L, stack_index) + 1

RECURSIVE SumTo(_, _)
SumTo(f, n) == IF n = 0 THEN 0 ELSE f[n] + SumTo(f, n - 1)

\* lst_validate: the sum of the sizes of all the buckets
bucket_size_sum(L) ==
    SumTo([k \in 1 .. stack_depth(L) |-> bucket_size(L, k - 1)], stack_depth(L))

\* how far along the circular walk from idx a pivot of the stack is
WalkFromIdx(L, stack_index) == stack_item(L, stack_index) - L.idx

\* C17: after every call the fictitious pivot is equivalent to idx +
\* num_elements modulo the capacity, the entries of the pivot stack decrease
\* strictly from the bottom to the top, which makes the pivots' positions
\* increase along the circular walk that starts at idx when the stack is
\* read from the top to the bottom, and when the LST holds elements the
\* sizes of the buckets and the depth - 1 real pivots add up to
\* num_elements.
C17_CircularConsistency ==
    /\ stack_depth(lst) >= 1
    /\ reduce(lst, stack_item(lst, 0)) = reduce(lst, lst.idx + lst.num_elements)
    /\ \A k \in 0 .. stack_depth(lst) - 2 :
          /\ stack_item(lst, k + 1) < stack_item(lst, k)
          /\ 0 <= WalkFromIdx(lst, k + 1)
          /\ WalkFromIdx(lst, k + 1) < WalkFromIdx(lst, k)
    /\ lst.num_elements # 0 =>
          bucket_size_sum(lst) + stack_depth(lst) - 1 = lst.num_elements

\* the positions of the live region, counted from idx
LivePositions(L) == {L.idx + i : i \in 0 .. L.num_elements - 1}

\* C18: after every call, for every real pivot of the stack, the live
\* elements before the pivot on the walk from idx compare <= the pivot
\* element and the live elements after it compare >= the pivot element.
C18_PivotOrder ==
    \A k \in 1 .. stack_depth(lst) - 1 :
        LET pivot == item(lst, stack_item(lst, k))
        IN  \A i \in LivePositions(lst) :
                /\ i < stack_item(lst, k) => cmp(item(lst, i), pivot) <= 0
                /\ i > stack_item(lst, k) => cmp(item(lst, i), pivot) >= 0

(***************************************************************************)
(* The LST next to the reference heap, checked under LstPopSpec.           *)
(***************************************************************************)
\* C19: under the same inserts and pops the LST and the reference heap hold
\* the same number of elements after every call, and every pop returns
\* from both elements with equal data, whatever the LST's random choices
\* are and also after an insert has expanded the LST while idx > 0.
C19_SameAsHeap ==
    /\ fr_lst_num_elements(lst) = Len(heap)
    /\ result.op = "pop" => DataOf(result.rc) = result.ref

\* the array was expanded while idx > 0 and three elements, all that the
\* LST then held, have been popped since
C19_Witness ==
    /\ expanded_at > 0
    /\ result.op = "pop"
    /\ result.rc # NULL
    /\ Len(popped) = 3
    /\ fr_lst_num_elements(lst) = 0

\* C20: when fr_lst_insert is called with num_elements = capacity it
\* either returns 0, and then the capacity has doubled, every element that
\* was live is live exactly once in [idx, idx + num_elements), the entries
\* left on the pivot stack designate the pivot elements they designated
\* before, and the new element is live; or, the reallocation having failed,
\* it returns -1 and capacity, idx, num_elements, the pivot stack and the
\* array are as they were.
C20_Expansion ==
    [][result'.op = "insert" /\ lst.num_elements = lst.capacity =>
          \/ /\ result'.rc = 0
             /\ lst'.capacity = 2 * lst.capacity
             /\ lst'.num_elements = lst.num_elements + 1
             /\ \A e \in Elems :
                   fr_lst_contains(lst, e) => Cardinality(SlotsOf(lst', e)) = 1
             /\ Cardinality(SlotsOf(lst', result'.arg)) = 1
             /\ stack_depth(lst') <= stack_depth(lst)
             /\ \A k \in 1 .. stack_depth(lst') - 1 :
                   item(lst', stack_item(lst', k)) = item(lst, stack_item(lst, k))
          \/ /\ result'.rc = -1
             /\ lst'.capacity = lst.capacity
             /\ lst'.idx = lst.idx
             /\ lst'.num_elements = lst.num_elements
             /\ lst'.s = lst.s
             /\ lst'.p = lst.p]_<<vars, lst_vars>>

\* the insert just made has doubled a full array whose live region started
\* after slot 0 and wrapped, and a pivot is still on the stack
C20_Witness ==
    /\ result.op = "insert"
    /\ result.rc = 0
    /\ lst.num_elements = INITIAL_CAPACITY + 1
    /\ lst.capacity = MaxCapacity
    /\ expanded_at % INITIAL_CAPACITY > 0
    /\ stack_depth(lst) > 1

(***************************************************************************)
(* fr_lst_extract: the NULL element, the return value, absent elements.    *)
(***************************************************************************)
\* C21: fr_lst_extract(lst, NULL) on an LST that is not empty does what
\* fr_lst_pop does: it removes one element, a minimum of those in the LST,
\* leaves the LST as some fr_lst_pop would, num_elements is one less and
\* the call reports success; on an empty LST it reports failure and changes
\* nothing.
C21_ExtractNullIsPop ==
    [][result'.op = "extract" /\ result'.arg = NULL =>
          IF lst.num_elements > 0
          THEN /\ result'.rc >= 0
               /\ lst'.num_elements = lst.num_elements - 1
               /\ \E rnd \in Random(lst) : lst' = Settle(fr_lst_pop(lst, rnd).L)
               /\ \E e \in members \ members' :
                     /\ members' = members \ {e}
                     /\ \A m \in members : data[e] <= data[m]
          ELSE /\ result'.rc = -1
               /\ lst' = lst]_<<vars, lst_vars>>

\* C22: fr_lst_extract, for an element and for NULL, returns 0 when it has
\* removed an element and -1 when it has removed none.
C22_ExtractReturns ==
    [][result'.op = "extract" =>
          IF lst'.num_elements = lst.num_elements - 1
          THEN result'.rc = 0
          ELSE result'.rc = -1]_<<vars, lst_vars>>

\* C23: fr_lst_extract of an element that is not in the LST, because its
\* back-index is -1 after a pop or an extract or because the LST is empty,
\* returns -1 and leaves num_elements, idx, the pivot stack, the array and
\* every back-index as they were.
C23_ExtractAbsent ==
    [][/\ result'.op = "extract"
       /\ result'.arg # NULL
       /\ \/ lst.item_index[result'.arg] = -1
          \/ lst.num_elements = 0
       => /\ result'.rc = -1
          /\ lst' = lst]_<<vars, lst_vars>>

\* an element that was taken out has been extracted again, in vain, from
\* an LST that holds another element
C23_Witness ==
    /\ result.op = "extract"
    /\ result.arg # NULL
    /\ result.rc = -1
    /\ lst.item_index[result.arg] = -1
    /\ lst.num_elements > 0

(***************************************************************************)
(* The fictitious pivot.                                                   *)
(***************************************************************************)
\* C24: in every state reached from a fresh LST by fr_lst_insert,
\* fr_lst_peek, fr_lst_pop and fr_lst_extract the pivot stack has depth
\* >= 1, its bottom entry is the fictitious pivot, one past the last
\* occupied position, and no downward scan of the stack has read below
\* stack index 0.
C24_FictitiousPivot ==
    /\ stack_depth(lst) >= 1
    /\ ~lst.below
    /\ ~lst.fault => stack_item(lst, 0) = lst.idx + lst.num_elements

(***************************************************************************)
(* The quickheap of src/lib/util/quickheap.c.  The operators take the      *)
(* quickheap Q and give the quickheap the C function leaves.               *)
(***************************************************************************)
\* the slot heap_sub names: _n % capacity on uint32_t, where -1 stands for
\* the 2^32 - 1 that 0 - 1 gives
heap_index(Q, n) ==
    IF n >= 0 THEN n % Q.capacity
    ELSE (((65536 % Q.capacity) * (65536 % Q.capacity)) + n) % Q.capacity

heap_sub(Q, n) == Q.heap[heap_index(Q, n)]

\* Q once the slot heap_sub(Q, n) names has been read or written
heap_use(Q, n) ==
    IF heap_index(Q, n) < QH_INITIAL_CAPACITY THEN Q
    ELSE [Q EXCEPT !.oob = TRUE, !.fault = @ \/ Q.past = "stops"]

\* heap_sub(qh, n) = v
heap_set(Q, n, v) == [heap_use(Q, n) EXCEPT !.heap[heap_index(Q, n)] = v]

qh_stack_depth(Q) == Q.s.depth

qh_stack_item(Q, index) ==
    IF index \in DOMAIN Q.s.data THEN Q.s.data[index] ELSE 0

\* Q once stack entry index has been read
stack_use(Q, index) ==
    IF index \notin DOMAIN Q.s.data
    THEN [Q EXCEPT !.beyond = TRUE, !.fault = TRUE]
    ELSE IF index >= Q.s.depth THEN [Q EXCEPT !.beyond = TRUE]
    ELSE Q

qh_stack_set(Q, index, new_value) ==
    IF index \in DOMAIN Q.s.data THEN [Q EXCEPT !.s.data[index] = new_value]
    ELSE [Q EXCEPT !.fault = TRUE]

\* stack_push: s->data[s->depth++] = pivot, nothing extends a full stack
qh_stack_push(Q, pivot) ==
    [qh_stack_set(Q, Q.s.depth, pivot) EXCEPT !.s.depth = @ + 1]

qh_stack_top(Q) == qh_stack_item(Q, Q.s.depth - 1)

\* stack_pop: s->depth--, which on a uint32_t depth of 0 gives 2^32 - 1
qh_stack_pop(Q) ==
    IF Q.s.depth = 0 THEN [Q EXCEPT !.fault = TRUE]
    ELSE [Q EXCEPT !.s.depth = @ - 1]

\* the loop of fr_quickheap_insert from stack level pidx on; the result is
\* the quickheap and the level the loop stopped at.  qh->cmp reads through
\* the pointer it is given, so the program stops unless it is an element
RECURSIVE qh_insert_loop(_, _, _)
qh_insert_loop(Q, d, pidx) ==
    LET pivot == qh_stack_item(Q, pidx)
        Q1 == heap_set(heap_use(stack_use(Q, pidx), pivot), pivot + 1,
                       heap_sub(Q, pivot))
        Q2 == qh_stack_set(Q1, pidx, pivot + 1)
        above == qh_stack_item(Q2, pidx + 1)
        Q3 == heap_use(stack_use(Q2, pidx + 1), above)
        Q4 == heap_set(heap_use(Q3, above + 1), pivot - 1,
                       heap_sub(Q3, above + 1))
    IN  IF Q2.fault THEN [Q |-> Q2, pidx |-> pidx]
        ELSE IF qh_stack_depth(Q2) = pivot + 1 THEN [Q |-> Q2, pidx |-> pidx]
        ELSE IF Q3.fault \/ heap_sub(Q3, above) \notin Elems
        THEN [Q |-> [Q3 EXCEPT !.fault = TRUE], pidx |-> pidx]
        ELSE IF cmp(heap_sub(Q3, above), d) <= 0 THEN [Q |-> Q3, pidx |-> pidx]
        ELSE IF Q4.fault THEN [Q |-> Q4, pidx |-> pidx]
        ELSE qh_insert_loop(Q4, d, pidx + 1)

\* fr_quickheap_insert once the loop has stopped
qh_insert_at(loop, d) ==
    IF loop.Q.fault THEN loop.Q
    ELSE heap_set(loop.Q, qh_stack_item(loop.Q, loop.pidx) - 1, d)

fr_quickheap_insert(Q, d) == qh_insert_at(qh_insert_loop(Q, d, 0), d)

fr_quickheap_num_elements(Q) ==
    LET heap_end == qh_stack_item(Q, 0)
    IN  IF heap_end >= Q.idx THEN heap_end - Q.idx
        ELSE Q.capacity - (Q.idx - heap_end)

\* the program stops when qh->cmp is handed a pointer to no element; -2
\* stands for that in the two scans of partition
CRASH == -2

\* while (qh->cmp(heap_sub(qh, ++l), pivot) < 0) ;
RECURSIVE qh_up(_, _, _)
qh_up(Q, l, pivot) ==
    IF heap_sub(Q, l + 1) \notin Elems THEN CRASH
    ELSE IF cmp(heap_sub(Q, l + 1), pivot) < 0 THEN qh_up(Q, l + 1, pivot)
    ELSE l + 1

\* while (qh->cmp(heap_sub(qh, --h), pivot) > 0) ;
RECURSIVE qh_down(_, _, _)
qh_down(Q, h, pivot) ==
    IF h - 1 < 0 \/ heap_sub(Q, h - 1) \notin Elems THEN CRASH
    ELSE IF cmp(heap_sub(Q, h - 1), pivot) > 0 THEN qh_down(Q, h - 1, pivot)
    ELSE h - 1

\* exchange heap_sub(qh, l) and heap_sub(qh, h) through temp
qh_swap(Q, l, h) == heap_set(heap_set(Q, l, heap_sub(Q, h)), h, heap_sub(Q, l))

\* one round of the for (;;) of partition, the two scans already made
RECURSIVE qh_partition_round(_, _, _, _)
qh_partition_round(Q, l, h, pivot) ==
    IF l = CRASH \/ h = CRASH THEN [Q |-> [Q EXCEPT !.fault = TRUE], h |-> 0]
    ELSE IF l >= h THEN [Q |-> Q, h |-> h]
    ELSE qh_partition_round(qh_swap(Q, l, h),
                            qh_up(qh_swap(Q, l, h), l, pivot),
                            qh_down(qh_swap(Q, l, h), h, pivot), pivot)

\* partition: the quickheap it leaves and the h it returns
qh_partition(Q, pivot, low, high) ==
    qh_partition_round(Q, qh_up(Q, low - 1, pivot), qh_down(Q, high + 1, pivot),
                       pivot)

\* incremental_quicksort; rnd[n] is what the n-th fr_fast_rand returns.  A
\* stack without entries makes stack_top read before the stack, and a top
\* below idx makes the size of the bucket wrap around 2^32
RECURSIVE incremental_quicksort(_, _, _)
RECURSIVE quicksort_step(_, _, _, _)
RECURSIVE quicksort_push(_, _, _)
incremental_quicksort(Q, rnd, n) ==
    IF qh_stack_depth(Q) = 0 THEN [Q EXCEPT !.fault = TRUE]
    ELSE IF Q.idx = qh_stack_top(Q) THEN Q
    ELSE IF qh_stack_top(Q) < Q.idx \/ n > Len(rnd)
    THEN [Q EXCEPT !.fault = TRUE]
    ELSE quicksort_step(Q, rnd, n,
                        Q.idx + (rnd[n] % (qh_stack_top(Q) - Q.idx)))

\* one turn of the loop of incremental_quicksort with the pivot at pidx
quicksort_step(Q, rnd, n, pidx) ==
    IF heap_sub(Q, pidx) \notin Elems THEN [Q EXCEPT !.fault = TRUE]
    ELSE quicksort_push(qh_partition(Q, heap_sub(Q, pidx), Q.idx,
                                     qh_stack_top(Q) - 1), rnd, n)

\* stack_push(qh->s, pidx_prime) and the next turn
quicksort_push(part, rnd, n) ==
    IF part.Q.fault THEN part.Q
    ELSE incremental_quicksort(qh_stack_push(part.Q, part.h), rnd, n + 1)

\* fr_quickheap_peek: what it returns, and the quickheap it leaves
qh_peek_at(Q) == [Q |-> Q, ret |-> IF Q.fault THEN NULL ELSE heap_sub(Q, Q.idx)]

fr_quickheap_peek(Q, rnd) == qh_peek_at(incremental_quicksort(Q, rnd, 1))

\* fr_quickheap_pop once incremental_quicksort has returned
qh_pop_at(Q) ==
    IF Q.fault THEN [Q |-> Q, ret |-> NULL]
    ELSE [Q |-> qh_stack_pop([Q EXCEPT !.idx = @ + 1]),
          ret |-> heap_sub(Q, Q.idx)]

fr_quickheap_pop(Q, rnd) == qh_pop_at(incremental_quicksort(Q, rnd, 1))

(***************************************************************************)
(* The calls on the quickheap.                                             *)
(***************************************************************************)
\* what fr_fast_rand can return to one incremental_quicksort
QhRandom(Q) ==
    IF fr_quickheap_num_elements(Q) <= MaxElems
    THEN RandomFrom(1, fr_quickheap_num_elements(Q))
    ELSE RandomFrom(1, MaxElems + 1)

\* fr_quickheap_insert(qh, &values[e]) for an element that is not in it
QhInsert ==
    /\ ~qh.fault
    /\ UNCHANGED vars
    /\ \E e \in Elems \ members :
          /\ qh' = fr_quickheap_insert(qh, e)
          /\ members' = members \cup {e}
          /\ qh_result' = [op |-> "insert", arg |-> e, rc |-> NULL]
    /\ inserts' = inserts + 1
    /\ popped' = <<>>
    /\ UNCHANGED <<revision, lst, data, removals, heap, result, expanded_at>>

\* fr_quickheap_peek(qh)
QhPeek ==
    /\ ~qh.fault
    /\ UNCHANGED vars
    /\ \E rnd \in QhRandom(qh) :
       \E peek \in {fr_quickheap_peek(qh, rnd)} :
          /\ qh' = peek.Q
          /\ qh_result' = [op |-> "peek", arg |-> NULL, rc |-> peek.ret]
    /\ UNCHANGED <<revision, lst, data, members, inserts, removals, popped,
                   heap, result, expanded_at>>

\* fr_quickheap_pop(qh)
QhPop ==
    /\ ~qh.fault
    /\ UNCHANGED vars
    /\ removals < MaxRemovals
    /\ \E rnd \in QhRandom(qh) :
       \E pop \in {fr_quickheap_pop(qh, rnd)} :
          /\ qh' = pop.Q
          /\ members' = members \ {pop.ret}
          /\ popped' = IF pop.ret \in Elems THEN Append(popped, data[pop.ret])
                       ELSE popped
          /\ qh_result' = [op |-> "pop", arg |-> NULL, rc |-> pop.ret]
    /\ removals' = removals + 1
    /\ UNCHANGED <<revision, lst, data, inserts, heap, result, expanded_at>>

QhNext ==
    \/ QhInsert
    \/ QhPeek
    \/ QhPop

\* a fresh quickheap in memory of any contents, with any data in the elements
QhInit ==
    /\ ChannelInit
    /\ ~same_thread
    /\ revision = "lst.c"
    /\ lst = fr_lst_alloc
    /\ data \in Values
    /\ members = {}
    /\ inserts = 0
    /\ removals = 0
    /\ popped = <<>>
    /\ heap = <<>>
    /\ result = [op |-> "none", arg |-> NULL, rc |-> 0, ref |-> 0]
    /\ expanded_at = -1
    /\ \E slot \in HeapGarbage, entry \in StackGarbage, past \in Past :
          qh = fr_quickheap_alloc(slot, entry, past)
    /\ qh_result = [op |-> "none", arg |-> NULL, rc |-> NULL]

QhSpec == QhInit /\ [][QhNext]_<<vars, lst_vars>>

(***************************************************************************)
(* Properties of the quickheap.                                            *)
(***************************************************************************)
\* the positions from idx up to the fictitious pivot
QhPositions(Q) == {i \in Q.idx .. qh_stack_item(Q, 0) - 1 : TRUE}

\* the quickheap holds the elements of M, each in one position, and each
\* pivot of the stack lies among them with nothing greater before it and
\* nothing smaller after it
QhHolds(Q, M) ==
    /\ qh_stack_depth(Q) >= 1
    /\ Q.idx <= qh_stack_item(Q, 0)
    /\ Cardinality(QhPositions(Q)) = Cardinality(M)
    /\ \A e \in M : \E i \in QhPositions(Q) : heap_sub(Q, i) = e
    /\ \A k \in 1 .. qh_stack_depth(Q) - 1 :
          /\ qh_stack_item(Q, k) \in QhPositions(Q)
          /\ qh_stack_item(Q, k) < qh_stack_item(Q, k - 1)
          /\ \A i \in QhPositions(Q) :
                /\ i < qh_stack_item(Q, k) =>
                      cmp(heap_sub(Q, i), heap_sub(Q, qh_stack_item(Q, k))) <= 0
                /\ i > qh_stack_item(Q, k) =>
                      cmp(heap_sub(Q, i), heap_sub(Q, qh_stack_item(Q, k))) >= 0

\* C25: when fr_quickheap_peek or fr_quickheap_pop is called on a quickheap
\* that holds elements and incremental_quicksort comes to its end, the
\* element returned is one of them and no element in the quickheap has
\* smaller data, whatever pivots were picked; after a pop the quickheap
\* holds the others and no longer that one.
C25_MinimumAtIdx ==
    [][/\ qh_result'.op \in {"peek", "pop"}
       /\ members # {}
       /\ QhHolds(qh, members)
       /\ ~qh'.fault
       => /\ qh_result'.rc \in members
          /\ \A m \in members : data[qh_result'.rc] <= data[m]
          /\ qh_result'.op = "pop" =>
                /\ members' = members \ {qh_result'.rc}
                /\ \A i \in QhPositions(qh') : heap_sub(qh', i) # qh_result'.rc
                /\ \A m \in members' :
                      \E i \in QhPositions(qh') : heap_sub(qh', i) = m
      ]_<<vars, lst_vars>>


\* C26: fr_quickheap_peek and fr_quickheap_pop on a quickheap that holds no
\* element return NULL and leave idx and the pivot stack as they were, so
\* the fictitious pivot stays on the stack and the depth stays at least 1.
C26_EmptyReturnsNull ==
    [][/\ qh_result'.op \in {"peek", "pop"}
       /\ members = {}
       /\ qh_stack_depth(qh) >= 1
       /\ fr_quickheap_num_elements(qh) = 0
       => /\ qh_result'.rc = NULL
          /\ qh'.idx = qh.idx
          /\ qh'.s = qh.s
          /\ qh_stack_depth(qh') >= 1
      ]_<<vars, lst_vars>>


(***************************************************************************)
(* The quickheap and the LST side by side: every insert goes to both, and  *)
(* every pop is made on both with the same values from fr_fast_rand.       *)
(***************************************************************************)
\* fr_lst_insert(lst, &values[e]) and fr_quickheap_insert(qh, &values[e])
BothInsert ==
    /\ ~lst.fault
    /\ ~qh.fault
    /\ UNCHANGED vars
    /\ \E e \in Elems \ members :
       \E realloc_ok \in ReallocOutcomes(lst) :
       \E flatten_at \in 0 .. lst.s.depth - 1 :
          /\ ~insert_fails(lst, realloc_ok)
          /\ lst' = Settle(fr_lst_insert(lst, e, realloc_ok, flatten_at))
          /\ qh' = fr_quickheap_insert(qh, e)
          /\ members' = members \cup {e}
          /\ heap' = heap_insert(heap, data[e])
          /\ result' = [op |-> "insert", arg |-> e, rc |-> 0, ref |-> 0]
          /\ qh_result' = [op |-> "insert", arg |-> e, rc |-> NULL]
          /\ expanded_at' = IF lst.num_elements = lst.capacity
                            THEN lst.idx ELSE expanded_at
    /\ inserts' = inserts + 1
    /\ popped' = <<>>
    /\ UNCHANGED <<revision, data, removals>>

\* fr_lst_pop(lst) and fr_quickheap_pop(qh) while the LST holds an element;
\* rnd is what fr_fast_rand returns, in turn, to the partitions of each
BothPop ==
    /\ ~lst.fault
    /\ ~qh.fault
    /\ UNCHANGED vars
    /\ lst.num_elements > 0
    /\ removals < MaxRemovals
    /\ \E rnd \in Random(lst) :
       \E pop \in {fr_lst_pop(lst, rnd)} :
       \E qpop \in {fr_quickheap_pop(qh, rnd)} :
          /\ lst' = Settle(pop.L)
          /\ qh' = qpop.Q
          /\ members' = members \ {pop.ret}
          /\ popped' = Append(popped, data[pop.ret])
          /\ heap' = Tail(heap)
          /\ result' = [op |-> "pop", arg |-> NULL, rc |-> pop.ret,
                        ref |-> Head(heap)]
          /\ qh_result' = [op |-> "pop", arg |-> NULL, rc |-> qpop.ret]
    /\ removals' = removals + 1
    /\ UNCHANGED <<revision, data, inserts, expanded_at>>

BothNext ==
    \/ BothInsert
    \/ BothPop

\* a fresh LST and a fresh quickheap in memory of any contents
BothInit ==
    /\ ChannelInit
    /\ ~same_thread
    /\ revision \in {"lst.c", "part_000"}
    /\ lst = fr_lst_alloc
    /\ data \in Values
    /\ members = {}
    /\ inserts = 0
    /\ removals = 0
    /\ popped = <<>>
    /\ heap = <<>>
    /\ result = [op |-> "none", arg |-> NULL, rc |-> 0, ref |-> 0]
    /\ expanded_at = -1
    /\ \E slot \in HeapGarbage, entry \in StackGarbage, past \in Past :
          qh = fr_quickheap_alloc(slot, entry, past)
    /\ qh_result = [op |-> "none", arg |-> NULL, rc |-> NULL]

BothSpec == BothInit /\ [][BothNext]_<<vars, lst_vars>>

\* C27: after every step of the two side by side the quickheap and the LST
\* report the same number of elements, and a pop gives from the quickheap
\* an element with the same data as the one the LST gives.
C27_SameAsLst ==
    /\ fr_quickheap_num_elements(qh) = fr_lst_num_elements(lst)
    /\ result.op = "pop" /\ qh_result.op = "pop" =>
          /\ qh_result.rc \in Elems
          /\ data[qh_result.rc] = data[result.rc]


\* n is a power of two
PowerOfTwo(n) == \E k \in 0 .. 12 : n = 2 ^ k

\* C28: at every moment, in the quickheap and in the LST, the capacity
\* that indices are reduced by is a power of two, and every reduced index
\* used on the array of elements is below the number of slots the array
\* was given (INITIAL_CAPACITY for the quickheap, capacity for the LST).
C28_ReducedIndexInArray ==
    /\ PowerOfTwo(qh.capacity)
    /\ ~qh.oob
    /\ PowerOfTwo(lst.capacity)
    /\ \A index \in 0 .. 2 * MaxCapacity : reduce(lst, index) < lst.capacity

\* the quickheap has used the slot one past the end of its array
QhPastTheArray == qh.oob /\ qh.capacity = QH_INITIAL_CAPACITY + 1


\* the level at which an insert of x has to stop: the lowest one that is
\* the top of the stack or has above it a pivot whose element is <= x
RECURSIVE QhStopLevel(_, _, _)
QhStopLevel(Q, x, k) ==
    IF k + 1 >= qh_stack_depth(Q) THEN k
    ELSE IF cmp(heap_sub(Q, qh_stack_item(Q, k + 1)), x) <= 0 THEN k
    ELSE QhStopLevel(Q, x, k + 1)

\* C29: fr_quickheap_insert(x) on a quickheap that holds its elements and
\* has room moves up by one the pivots from the bottom of the stack to the
\* level where it has to stop and no others, reads no stack entry at or
\* above the depth, leaves x just under the pivot of that level, and
\* afterwards the quickheap holds one element more and all it held before.
C29_InsertWalk ==
    [][/\ qh_result'.op = "insert"
       /\ QhHolds(qh, members)
       /\ ~qh.beyond
       /\ qh_stack_item(qh, 0) + 1 < QH_INITIAL_CAPACITY
       => /\ ~qh'.beyond
          /\ ~qh'.fault
          /\ qh_stack_depth(qh') = qh_stack_depth(qh)
          /\ \A k \in 0 .. qh_stack_depth(qh) - 1 :
                qh_stack_item(qh', k) =
                   IF k <= QhStopLevel(qh, qh_result'.arg, 0)
                   THEN qh_stack_item(qh, k) + 1 ELSE qh_stack_item(qh, k)
          /\ heap_sub(qh', qh_stack_item(qh', QhStopLevel(qh, qh_result'.arg, 0)) - 1)
                = qh_result'.arg
          /\ fr_quickheap_num_elements(qh') = fr_quickheap_num_elements(qh) + 1
          /\ \A m \in members' : \E i \in QhPositions(qh') : heap_sub(qh', i) = m
      ]_<<vars, lst_vars>>


(***************************************************************************)
(* Properties of the signal of fr_channel_send_reply, checked under        *)
(* SignalSpec.                                                             *)
(***************************************************************************)
\* C30: when a cross-thread fr_channel_send_reply that has pushed its reply
\* and drained the requests comes to its end, it hands exactly one control
\* message to fr_control_message_send on the responder's control plane:
\* DATA_DONE_RESPONDER if the responder's num_outstanding is 0 at that
\* moment, DATA_TO_REQUESTOR otherwise, which is on the plane afterwards
\* when the transport takes it; the steps before hand over none; and
\* sequence_at_last_signal is 0 throughout, never above
\* their_view_of_my_sequence, so the return without a signal is not taken.
C30_ReplySignalled ==
    [][/\ end'[TO_REQUESTOR].sequence_at_last_signal = 0
       /\ end'[TO_REQUESTOR].sequence_at_last_signal
             <= end'[TO_REQUESTOR].their_view_of_my_sequence
       /\ pc[RESPONDER] \in {"send_reply_push", "send_reply_drain"} =>
             ctl_sent'[TO_REQUESTOR] = ctl_sent[TO_REQUESTOR]
       /\ pc[RESPONDER] = "send_reply_signal" /\ pc'[RESPONDER] = "idle" =>
             LET responder == end[TO_REQUESTOR]
                 which == IF responder.num_outstanding = 0
                          THEN FR_CHANNEL_SIGNAL_DATA_DONE_RESPONDER
                          ELSE FR_CHANNEL_SIGNAL_DATA_TO_REQUESTOR
                 cc == [signal |-> which, ack |-> responder.ack]
             IN  /\ ~same_thread
                 /\ ctl_sent'[TO_REQUESTOR] = ctl_sent[TO_REQUESTOR] + 1
                 /\ end'[TO_REQUESTOR].num_signals = responder.num_signals + 1
                 /\ \/ control'[TO_REQUESTOR] = Append(control[TO_REQUESTOR], cc)
                    \/ control'[TO_REQUESTOR] = control[TO_REQUESTOR]
      ]_vars

\* the responder has replied twice: once with a request still outstanding,
\* signalled with DATA_TO_REQUESTOR, and once with none, signalled with
\* DATA_DONE_RESPONDER; both messages are on its control plane
C30_Witness ==
    /\ ~same_thread
    /\ pc[RESPONDER] = "idle"
    /\ Len(sent_ok[TO_REQUESTOR]) = 2
    /\ end[TO_REQUESTOR].num_outstanding = 0
    /\ Len(control[TO_REQUESTOR]) = 2
    /\ control[TO_REQUESTOR][1].signal = FR_CHANNEL_SIGNAL_DATA_TO_REQUESTOR
    /\ control[TO_REQUESTOR][2].signal = FR_CHANNEL_SIGNAL_DATA_DONE_RESPONDER


(***************************************************************************)
(* Properties of must_signal, checked under SignalSpec.                    *)
(***************************************************************************)
\* C31: whenever no thread is inside a channel function, must_signal of
\* both ends is false: fr_channel_service_message sets it on the
\* requestor's end for DATA_DONE_RESPONDER and RESPONDER_SLEEPING and the
\* fr_channel_data_ready it then calls clears it before it returns, so no
\* send that follows finds it set.
C31_MustSignalClear ==
    /\ BetweenOperations => \A e \in Ends : ~end[e].must_signal
    /\ \A t \in Threads :
          pc[t] \in {"send_request_signal", "send_reply_signal"} =>
             \A e \in Ends : ~end[e].must_signal

\* the requestor has just served a RESPONDER_SLEEPING message and signalled
\* the responder again, and its signal is on the responder's plane
C31_Witness ==
    /\ ~same_thread
    /\ BetweenOperations
    /\ end[TO_RESPONDER].num_resignals = 1
    /\ control[TO_RESPONDER] # <<>>
    /\ event = [to |-> REQUESTOR, ce |-> FR_CHANNEL_NOOP]
    /\ ~end[TO_RESPONDER].must_signal


(***************************************************************************)
(* fr_channel_send_reply against a close made by the requestor thread,     *)
(* checked under CloseSpec.                                                *)
(***************************************************************************)
\* C32 as stated: no reply descriptor is pushed onto the reply queue once
\* the active flag has been cleared.
C32_NoPushAfterClear ==
    [][Len(aq'[TO_REQUESTOR]) > Len(aq[TO_REQUESTOR]) => active]_vars

\* C32: a reply descriptor is pushed only by a fr_channel_send_reply that
\* found the channel active and cross-thread at its check, and a call whose
\* check finds the flag cleared goes no further; the push itself comes
\* after the check and does not look at the flag again.
C32_PushAfterPassedCheck ==
    [][/\ pc[RESPONDER] = "idle" /\ pc'[RESPONDER] = "send_reply_push" =>
             active /\ ~same_thread
       /\ Len(aq'[TO_REQUESTOR]) > Len(aq[TO_REQUESTOR]) =>
             /\ pc[RESPONDER] = "send_reply_push"
             /\ pc'[RESPONDER] = "send_reply_drain"
       /\ pc[RESPONDER] = "send_reply_push" /\ pc'[RESPONDER] # "send_reply_push" =>
             IF CanPush(aq[TO_REQUESTOR])
             THEN Len(aq'[TO_REQUESTOR]) = Len(aq[TO_REQUESTOR]) + 1
             ELSE aq' = aq
      ]_vars

\* the requestor has called fr_channel_signal_responder_close while a
\* fr_channel_send_reply stands between its check and its push, with room
\* in the reply queue
C32_Witness ==
    /\ ~same_thread
    /\ ~active
    /\ closing = {REQUESTOR}
    /\ pc[RESPONDER] = "send_reply_push"
    /\ CanPush(aq[TO_REQUESTOR])


(***************************************************************************)
(* A responder that calls fr_channel_recv_request only when its control    *)
(* plane hands it a DATA_TO_RESPONDER message, or from inside its own      *)
(* fr_channel_send_reply.                                                  *)
(***************************************************************************)
\* while (fr_channel_recv_request(ch)); on the queue, end, failed asserts
\* and callback log of st
RECURSIVE drain_requests(_)
drain_requests(st) ==
    IF st.aq = <<>> THEN st
    ELSE drain_requests([aq |-> Tail(st.aq),
                         end |-> RecvRequestEnd(st.end, Head(st.aq)),
                         asserts |-> st.asserts \cup
                                        RecvRequestAsserts(st.end, Head(st.aq)),
                         log |-> Append(st.log, Head(st.aq))])

\* the responder thread takes a DATA_TO_RESPONDER message from its plane
\* with fr_channel_service_message, which returns it as it is, and reacts
\* by receiving the requests that are queued
WorkerDataReady ==
    /\ pc[RESPONDER] = "idle"
    /\ UNCHANGED <<lst_vars, rcode>>
    /\ control[TO_RESPONDER] # <<>>
    /\ Head(control[TO_RESPONDER]).signal = FR_CHANNEL_SIGNAL_DATA_TO_RESPONDER
    /\ control' = [control EXCEPT ![TO_RESPONDER] = Tail(@)]
    /\ event' = [to |-> RESPONDER, ce |-> FR_CHANNEL_DATA_READY_RESPONDER]
    /\ \E st \in {drain_requests([aq |-> aq[TO_RESPONDER],
                                  end |-> end[TO_REQUESTOR],
                                  asserts |-> assert_failed,
                                  log |-> recv_log[TO_REQUESTOR]])} :
          /\ aq' = [aq EXCEPT ![TO_RESPONDER] = st.aq]
          /\ end' = [end EXCEPT ![TO_REQUESTOR] = st.end]
          /\ assert_failed' = st.asserts
          /\ recv_log' = [recv_log EXCEPT ![TO_REQUESTOR] = st.log]
    /\ UNCHANGED <<tentative, ctl_sent, same_thread, active, pc, next_id,
                   sent_ok, failed, null_replies, closing, opened>>

WakeNext ==
    \/ SendRequest
    \/ SendRequestFull
    \/ SendRequestSignal
    \/ RecvReply
    \/ SendReply
    \/ SendReplyPush
    \/ SendReplyFull
    \/ SendReplyDrain
    \/ SendReplySignal
    \/ NullReply
    \/ WorkerDataReady
    \/ ServiceMessage(REQUESTOR)

\* a fresh cross-thread channel
WakeInit ==
    /\ Init
    /\ ~same_thread

\* each thread runs the function it is in to its end, the responder
\* answers the requests it has and reacts to the messages on its plane, and
\* the requestor reads its plane and its replies
WakeLive ==
    /\ WakeInit /\ [][WakeNext]_vars
    /\ WF_vars(SendRequestFull) /\ WF_vars(SendRequestSignal)
    /\ WF_vars(SendReply) /\ WF_vars(SendReplyPush) /\ WF_vars(SendReplyFull)
    /\ WF_vars(SendReplyDrain) /\ WF_vars(SendReplySignal)
    /\ WF_vars(WorkerDataReady)
    /\ WF_vars(ServiceMessage(REQUESTOR)) /\ WF_vars(RecvReply)

\* the descriptor with this id is on the request queue
Queued(id) == \E i \in 1 .. Len(aq[TO_RESPONDER]) : aq[TO_RESPONDER][i].id = id

\* the responder's callback has been handed the descriptor with this id
Received(id) ==
    \E i \in 1 .. Len(recv_log[TO_REQUESTOR]) : recv_log[TO_REQUESTOR][i].id = id

\* C33: a request that fr_channel_send_request has pushed and returned from
\* with no message for the responder on the control plane (its
\* DATA_TO_RESPONDER was refused by the transport) is still handed to the
\* responder's callback in the end.
C33_LostSignalStillReceived ==
    \A id \in 1 .. MaxSend + MaxFailed :
       (/\ Queued(id)
        /\ pc[REQUESTOR] = "idle"
        /\ control[TO_RESPONDER] = <<>>) ~> Received(id)


(***************************************************************************)
(* Which thread touches which end, checked under Spec.                     *)
(***************************************************************************)
\* the steps of the functions the requestor thread calls
RequestorStep ==
    \/ SendRequest
    \/ SendRequestFull
    \/ SendRequestSignal
    \/ RecvReply
    \/ SignalResponderClose
    \/ SignalOpen
    \/ ServiceMessage(REQUESTOR)

\* the steps of the functions the responder thread calls
ResponderStep ==
    \/ SendReply
    \/ SendReplyPush
    \/ SendReplyFull
    \/ SendReplyDrain
    \/ SendReplySignal
    \/ NullReply
    \/ RecvRequest
    \/ ResponderSleeping
    \/ ResponderAckClose
    \/ ServiceMessage(RESPONDER)

\* the end whose sequence, ack, counters, stamps and must_signal a function
\* reads or writes through its requestor or responder pointer; the two
\* close functions use only the control and rb pointers set at creation
EndUsed ==
    [fr_channel_send_request |-> {TO_RESPONDER},
     fr_channel_recv_reply |-> {TO_RESPONDER},
     fr_channel_signal_responder_close |-> {},
     fr_channel_service_message |-> {TO_RESPONDER},
     fr_channel_send_reply |-> {TO_REQUESTOR},
     fr_channel_null_reply |-> {TO_REQUESTOR},
     fr_channel_recv_request |-> {TO_REQUESTOR},
     fr_channel_responder_sleeping |-> {TO_REQUESTOR},
     fr_channel_responder_ack_close |-> {}]

\* the functions each thread calls; the responder's
\* fr_channel_service_message is looked at apart, by the signals that can
\* be on its plane
CalledBy ==
    [requestor |-> {"fr_channel_send_request", "fr_channel_recv_reply",
                    "fr_channel_signal_responder_close",
                    "fr_channel_service_message"},
     responder |-> {"fr_channel_send_reply", "fr_channel_null_reply",
                    "fr_channel_recv_request", "fr_channel_responder_sleeping",
                    "fr_channel_responder_ack_close"}]

\* the end a thread keeps its own fields in
OwnEnd(t) == IF t = REQUESTOR THEN TO_RESPONDER ELSE TO_REQUESTOR

\* C34: when the requestor thread calls only its functions and the
\* responder thread only its own, the fields of end[TO_RESPONDER] are read
\* and written by the requestor thread alone and those of end[TO_REQUESTOR]
\* by the responder thread alone, and each queue is pushed by one thread
\* and popped by the other: requests by the requestor and the responder,
\* replies the other way round.  The messages that make
\* fr_channel_service_message touch end[TO_RESPONDER] never lie on the
\* plane the responder reads.
C34_SingleOwner ==
    /\ \A t \in Threads : \A fn \in CalledBy[t] : EndUsed[fn] \subseteq {OwnEnd(t)}
    /\ [](\A i \in 1 .. Len(control[TO_RESPONDER]) :
             control[TO_RESPONDER][i].signal \in ReturnedAsIs)
    /\ [][/\ end'[TO_RESPONDER] # end[TO_RESPONDER] =>
                RequestorStep /\ ~ResponderStep
          /\ end'[TO_REQUESTOR] # end[TO_REQUESTOR] =>
                ResponderStep /\ ~RequestorStep
          /\ Len(aq'[TO_RESPONDER]) > Len(aq[TO_RESPONDER]) =>
                RequestorStep /\ ~ResponderStep
          /\ Len(aq'[TO_RESPONDER]) < Len(aq[TO_RESPONDER]) =>
                ResponderStep /\ ~RequestorStep
          /\ Len(aq'[TO_REQUESTOR]) > Len(aq[TO_REQUESTOR]) =>
                ResponderStep /\ ~RequestorStep
          /\ Len(aq'[TO_REQUESTOR]) < Len(aq[TO_REQUESTOR]) =>
                RequestorStep /\ ~ResponderStep
         ]_vars

\* both threads have written their ends and both queues have been pushed
\* and popped: a request was received and replied to, the reply was
\* received, and the requestor has signalled again for a message of the
\* responder
C34_Witness ==
    /\ ~same_thread
    /\ Len(recv_log[TO_REQUESTOR]) >= 1
    /\ Len(recv_log[TO_RESPONDER]) >= 1
    /\ end[TO_RESPONDER].num_resignals >= 1
    /\ end[TO_REQUESTOR].num_signals >= 1
    /\ closing = Threads

\* C35: fr_channel_responder_sleeping returns 0 and changes nothing when the
\* responder's end has no outstanding request.  Otherwise it calls the
\* transport once with a RESPONDER_SLEEPING message that carries the
\* responder's ack and goes to the requestor's control plane, adds one to the
\* responder's num_signals, changes nothing else, and returns what the
\* transport returned: 0 when the message was queued, -1 when it was not.
C35_ResponderSleeping ==
    [][ResponderSleeping =>
          LET responder == end[TO_REQUESTOR]
              cc == [signal |-> FR_CHANNEL_SIGNAL_RESPONDER_SLEEPING,
                     ack |-> responder.ack]
          IN /\ rcode'.called
             /\ UNCHANGED <<same_thread, active, aq, pc, event, next_id,
                            sent_ok, failed, tentative, recv_log,
                            null_replies, closing, opened, assert_failed,
                            lst_vars>>
             /\ end'[TO_RESPONDER] = end[TO_RESPONDER]
             /\ control'[TO_RESPONDER] = control[TO_RESPONDER]
             /\ ctl_sent'[TO_RESPONDER] = ctl_sent[TO_RESPONDER]
             /\ IF responder.num_outstanding = 0 THEN
                   /\ rcode'.rc = 0
                   /\ UNCHANGED <<end, control, ctl_sent>>
                ELSE
                   /\ end'[TO_REQUESTOR] = [responder EXCEPT !.num_signals = @ + 1]
                   /\ ctl_sent'[TO_REQUESTOR] = ctl_sent[TO_REQUESTOR] + 1
                   /\ \/ /\ control'[TO_REQUESTOR] = Append(control[TO_REQUESTOR], cc)
                         /\ rcode'.rc = 0
                      \/ /\ control'[TO_REQUESTOR] = control[TO_REQUESTOR]
                         /\ rcode'.rc = -1
    ]_<<vars, lst_vars>>

\* the responder has reported that it sleeps while a request was outstanding,
\* and the message is on the requestor's control plane
C35_Witness ==
    /\ rcode = [called |-> TRUE, rc |-> 0]
    /\ end[TO_REQUESTOR].num_outstanding > 0
    /\ end[TO_REQUESTOR].num_signals = 1
    /\ \E i \in DOMAIN control[TO_REQUESTOR] :
          control[TO_REQUESTOR][i].signal = FR_CHANNEL_SIGNAL_RESPONDER_SLEEPING

(***************************************************************************)
(* fr_lst_peek and fr_lst_pop, checked under LstPeekSpec: the inserts,     *)
(* pops and peeks of lst_burn_in.                                          *)
(***************************************************************************)
\* the elements in the num_elements slots that start at idx
LiveElements(L) == {item(L, i) : i \in LivePositions(L)}

\* every live element of L is in the slot its back-index names
BackIndexConsistent(L) ==
    \A e \in LiveElements(L) :
        /\ e \in Elems
        /\ L.item_index[e] \in 0 .. L.capacity - 1
        /\ L.p[L.item_index[e]] = e

\* d is an element of the LST none of whose elements compares below it
IsMinimum(L, d) ==
    /\ d \in LiveElements(L)
    /\ \A e \in LiveElements(L) : cmp(d, e) <= 0

\* C36: fr_lst_peek and fr_lst_pop on an empty LST return NULL and change
\* nothing.  fr_lst_peek on an LST that holds elements returns a minimum
\* and leaves num_elements, idx, the set of live elements and the
\* consistency of their back-indices as they were; whatever the random
\* numbers, a second peek returns the same element, and so does a pop that
\* follows the peek.
C36_PeekAndPop ==
    [][/\ (Peek \/ Pop) /\ lst.num_elements = 0 =>
             /\ result'.rc = NULL
             /\ lst' = lst
             /\ members' = members
       /\ Peek /\ lst.num_elements > 0 =>
             /\ IsMinimum(lst, result'.rc)
             /\ lst'.num_elements = lst.num_elements
             /\ lst'.idx = lst.idx
             /\ lst'.capacity = lst.capacity
             /\ LiveElements(lst') = LiveElements(lst)
             /\ BackIndexConsistent(lst) /\ BackIndexConsistent(lst')
             /\ \A e \in Elems \ LiveElements(lst) :
                   lst'.item_index[e] = lst.item_index[e]
             /\ \A rnd \in Random(lst') :
                   /\ fr_lst_peek(lst', rnd).ret = result'.rc
                   /\ fr_lst_pop(lst', rnd).ret = result'.rc
    ]_<<vars, lst_vars>>

\* a peek has refined the pivot structure of an LST of three elements, two
\* of them with the same data, and has returned one of them
C36_Witness ==
    /\ result.op = "peek"
    /\ result.rc \in Elems
    /\ lst.num_elements = MaxElems
    /\ stack_depth(lst) > 2
    /\ \E e \in members \ {result.rc} : data[e] = data[result.rc]

(***************************************************************************)
(* partition, applied to the leftmost bucket of every LST the calls reach  *)
(* and to every LST its own result leaves to be partitioned again.         *)
(***************************************************************************)
\* the bucket find_empty_left hands to partition: the one on top of the
\* stack, which starts at idx
LeftmostBucket(L) == stack_depth(L) - 1

\* the bucket of stack_index is pure and not empty: its slots hold distinct
\* elements whose back-indices name their slots
PureBucket(L, stack_index) ==
    LET low == bucket_lwb(L, stack_index)
        high == bucket_upb(L, stack_index)
    IN  /\ ~L.fault
        /\ is_bucket(L, stack_index)
        /\ low <= high
        /\ high - low < L.capacity
        /\ \A i \in low .. high :
              /\ item(L, i) \in Elems
              /\ L.item_index[item(L, i)] = reduce(L, i)

\* what partition(L, stack_index) with the random number r has to leave
PartitionPost(L, stack_index, r) ==
    LET low == bucket_lwb(L, stack_index)
        high == bucket_upb(L, stack_index)
        chosen == item(L, low + (r % (high + 1 - low)))
        P == partition(L, stack_index, r)
        h == stack_item(P, stack_depth(P) - 1)
    IN  /\ stack_depth(P) = stack_depth(L) + 1
        /\ \A k \in 0 .. stack_depth(L) - 1 : stack_item(P, k) = stack_item(L, k)
        /\ low <= h /\ h <= high
        /\ item(P, h) = chosen
        /\ \A i \in low .. h - 1 : cmp(item(P, i), chosen) <= 0
        /\ \A i \in h + 1 .. high : cmp(item(P, i), chosen) >= 0
        /\ {item(P, i) : i \in low .. high} = {item(L, i) : i \in low .. high}
        /\ \A i \in low .. high : P.item_index[item(P, i)] = reduce(P, i)
        /\ \A i \in 0 .. L.capacity - 1 :
              (\A j \in low .. high : reduce(L, j) # i) => P.p[i] = L.p[i]
        /\ \A e \in Elems \ {item(L, i) : i \in low .. high} :
              P.item_index[e] = L.item_index[e]
        /\ P.idx = L.idx /\ P.num_elements = L.num_elements
        /\ P.capacity = L.capacity /\ ~P.fault

\* PartitionPost for every random number, on L and on what each partition
\* leaves for the next one of the same find_empty_left
RECURSIVE PartitionChain(_)
PartitionChain(L) ==
    LET stack_index == LeftmostBucket(L)
        size == bucket_upb(L, stack_index) - bucket_lwb(L, stack_index) + 1
    IN  PureBucket(L, stack_index) =>
           \A r \in 0 .. size - 1 :
              /\ PartitionPost(L, stack_index, r)
              /\ PartitionChain(partition(L, stack_index, r))

\* C37: partition of a pure bucket [low, high] that is not empty pushes one
\* pivot index h, low <= h <= high, with the element it picked as the pivot
\* in slot h, the elements of [low, h) comparing <= it and those of (h, high]
\* comparing >= it, the same elements in [low, high] as before and every
\* back-index naming its element's slot, whatever the random number, also
\* for a bucket of one element, for elements with equal data and for a
\* bucket that wraps around the end of the array.
C37_Partition == PartitionChain(lst)

\* partitions have left a pivot on the stack, and an insert has given the
\* leftmost bucket two elements with equal data, the first of them in the
\* last slot of the array and the second in slot 0
C37_Witness ==
    /\ result.op = "insert" /\ result.rc = 0
    /\ stack_depth(lst) >= 2
    /\ PureBucket(lst, LeftmostBucket(lst))
    /\ bucket_upb(lst, LeftmostBucket(lst)) = lst.idx + 1
    /\ reduce(lst, lst.idx) = lst.capacity - 1
    /\ data[item(lst, lst.idx)] = data[item(lst, lst.idx + 1)]

(***************************************************************************)
(* find_empty_left on the LSTs the calls reach.                            *)
(***************************************************************************)
\* the LST has the structure the calls are to keep: the back-indices, the
\* circular pivot stack and the order around the pivots
WellFormed(L) ==
    /\ ~L.fault
    /\ BackIndexConsistent(L)
    /\ Cardinality(LiveElements(L)) = L.num_elements
    /\ stack_depth(L) >= 1
    /\ reduce(L, stack_item(L, 0)) = reduce(L, L.idx + L.num_elements)
    /\ stack_item(L, 0) = L.idx + L.num_elements
    /\ \A k \in 0 .. stack_depth(L) - 2 :
          /\ stack_item(L, k + 1) < stack_item(L, k)
          /\ L.idx <= stack_item(L, k + 1)
    /\ \A k \in 1 .. stack_depth(L) - 1 :
          \A i \in LivePositions(L) :
             /\ i < stack_item(L, k) => cmp(item(L, i), item(L, stack_item(L, k))) <= 0
             /\ i > stack_item(L, k) => cmp(item(L, i), item(L, stack_item(L, k))) >= 0

\* what find_empty_left has to return on L, for the random numbers rnd
FindEmptyLeftPost(L, rnd) ==
    LET found == find_empty_left(L, rnd)
        location == stack_item(found.L, found.stack_index)
    IN  /\ ~found.L.fault
        /\ found.stack_index >= 1
        /\ found.stack_index = stack_depth(found.L) - 1
        /\ found.stack_index <= stack_depth(L) - 1 + L.num_elements
        /\ equivalent(found.L, location, found.L.idx)
        /\ lst_size(found.L, found.stack_index) = 0
        /\ IsMinimum(found.L, item(found.L, location))
        /\ LiveElements(found.L) = LiveElements(L)

\* C38: on every LST that holds elements and has the structure the calls
\* are to keep, find_empty_left comes to an end after at most num_elements
\* partitions, whatever the random numbers; the stack index it returns is
\* at least 1 and is the top of the pivot stack, the pivot of that index
\* is at a position equivalent to idx, so that nothing is to its left, and
\* the element there is a minimum of the LST.
C38_FindEmptyLeft ==
    lst.num_elements > 0 /\ WellFormed(lst) =>
        \A rnd \in Random(lst) : FindEmptyLeftPost(lst, rnd)

\* a peek has run find_empty_left on an LST whose live region starts in the
\* last slot of the array and wraps, after an element was removed, and has
\* left the leftmost pivot on top of a stack of two pivots
C38_Witness ==
    /\ result.op = "peek" /\ result.rc \in Elems
    /\ WellFormed(lst)
    /\ removals > 0
    /\ lst.num_elements = 2
    /\ stack_depth(lst) = 3
    /\ stack_item(lst, 2) = lst.idx
    /\ reduce(lst, lst.idx) = lst.capacity - 1

(***************************************************************************)
(* fr_lst_extract of an element whose slot is in the wrapped part of the   *)
(* array.                                                                  *)
(***************************************************************************)
\* the position of the live element d on the walk from idx: idx <= position
\* < idx + num_elements, not reduced
TruePosition(L, d) == CHOOSE i \in LivePositions(L) : item(L, i) = d

\* the stack level the scan of fr_lst_extract and bucket_delete finds for d
\* from its back-index
ScannedLevel(L, d) == scan(L, stack_depth(L) - 1, L.item_index[d])

\* the stack level of the bucket or pivot that holds d
TrueLevel(L, d) == scan(L, stack_depth(L) - 1, TruePosition(L, d))

\* C39: fr_lst_extract(x) for a live element x of an LST removes x and
\* nothing else and leaves the pivot stack and the order around the pivots
\* as they have to be, also when x is in the part of the live region that
\* has wrapped around the end of the array, where its back-index, which is
\* reduced, is smaller than idx and than the entries of the pivot stack,
\* which are not: the stack level the scan finds from the back-index is
\* the level of the bucket that holds x.
C39_ExtractWrapped ==
    [][\A x \in members :
          (/\ WellFormed(lst)
           /\ Extract
           /\ result'.arg = x) =>
             /\ ScannedLevel(lst, x) = TrueLevel(lst, x)
             /\ result'.rc = 1
             /\ LiveElements(lst') = LiveElements(lst) \ {x}
             /\ lst'.num_elements = lst.num_elements - 1
             /\ WellFormed(lst')
    ]_<<vars, lst_vars>>

=============================================================================
